---- MODULE Spec2Model ----
(***************************************************************************)
(* A model of whoishistory.py (pywhoishistory): the whois/DNS history      *)
(* keeper.  The store (tables domain, state, changed), the operations of   *)
(* class App on it (check_domain, check_all_domains, set_domain_status,    *)
(* purge_domain) and the normalisation of python-whois output              *)
(* (_clean_parsed_data, _inject_dns_lookups).                              *)
(*                                                                         *)
(* Python text is a sequence of one-character strings, so that lower(),    *)
(* sorted() and join() are computed and not assumed.  A Python value is a  *)
(* tagged record: None, str, list, datetime.                               *)
(***************************************************************************)
EXTENDS Integers, Sequences, FiniteSets, TLC

(***************************************************************************)
(* Text                                                                    *)
(***************************************************************************)

\* The characters the model's texts are made of, in code point order.
Alphabet ==
    << " ", "(", ")", ",", "-", ".", "/",
       "0", "1", "2", "3", "4", "5", "6", "7", "8", "9", ":", "@",
       "A", "B", "C", "D", "E", "F", "G", "H", "I", "J", "K", "L", "M",
       "N", "O", "P", "Q", "R", "S", "T", "U", "V", "W", "X", "Y", "Z",
       "a", "b", "c", "d", "e", "f", "g", "h", "i", "j", "k", "l", "m",
       "n", "o", "p", "q", "r", "s", "t", "u", "v", "w", "x", "y", "z" >>

CharOrd(c) == CHOOSE i \in 1..Len(Alphabet) : Alphabet[i] = c

IsDigit(c) == CharOrd(c) >= CharOrd("0") /\ CharOrd(c) <= CharOrd("9")

IsUpper(c) == CharOrd(c) >= CharOrd("A") /\ CharOrd(c) <= CharOrd("Z")

\* str.lower(), one character
LowerChar(c) == IF IsUpper(c) THEN Alphabet[CharOrd(c) + 26] ELSE c

\* str.lower()
Lower(s) == [i \in 1..Len(s) |-> LowerChar(s[i])]

\* s < t for Python str: code point order, a proper prefix is smaller
RECURSIVE StrLess(_, _)
StrLess(s, t) ==
    IF t = <<>> THEN FALSE
    ELSE IF s = <<>> THEN TRUE
    ELSE IF s[1] # t[1] THEN CharOrd(s[1]) < CharOrd(t[1])
    ELSE StrLess(Tail(s), Tail(t))

\* sorted(l) for a list of str (duplicates are kept)
RECURSIVE SortedInsert(_, _)
SortedInsert(s, l) ==
    IF l = <<>> THEN <<s>>
    ELSE IF StrLess(l[1], s) THEN <<l[1]>> \o SortedInsert(s, Tail(l))
    ELSE <<s>> \o l

RECURSIVE SortedList(_)
SortedList(l) ==
    IF l = <<>> THEN <<>> ELSE SortedInsert(l[1], SortedList(Tail(l)))

\* sorted(S) for a set of str
RECURSIVE SortedSet(_)
SortedSet(S) ==
    IF S = {} THEN <<>>
    ELSE LET m == CHOOSE x \in S : \A y \in S : y = x \/ StrLess(x, y)
         IN  <<m>> \o SortedSet(S \ {m})

\* sep.join(l)
RECURSIVE Join(_, _)
Join(sep, l) ==
    IF l = <<>> THEN <<>>
    ELSE IF Len(l) = 1 THEN l[1]
    ELSE l[1] \o sep \o Join(sep, Tail(l))

CommaSpace == <<",", " ">>

\* the elements of a list, as a set
Range(l) == {l[i] : i \in 1..Len(l)}

\* str(n) for the small naturals the model uses
RECURSIVE IntToStr(_)
IntToStr(n) ==
    IF n < 10 THEN <<Alphabet[CharOrd("0") + n]>>
    ELSE IntToStr(n \div 10) \o <<Alphabet[CharOrd("0") + (n % 10)]>>

\* int(s) for a str of decimal digits
RECURSIVE StrToInt(_)
StrToInt(s) ==
    IF s = <<>> THEN 0
    ELSE 10 * StrToInt(SubSeq(s, 1, Len(s) - 1))
         + (CharOrd(s[Len(s)]) - CharOrd("0"))

(***************************************************************************)
(* Python values                                                           *)
(***************************************************************************)

PyNone == [k |-> "none"]

PyStr(s) == [k |-> "str", s |-> s]

PyList(l) == [k |-> "list", l |-> l]

\* datetime.datetime: the civil fields <<year, month, day, hour, minute,
\* second>>, the microsecond, and tzinfo: <<>> when naive, <<utcoffset in
\* minutes>> when aware.  Naive datetimes compare by their fields.
PyDatetime(f, us, tz) == [k |-> "datetime", f |-> f, us |-> us, tz |-> tz]

Naive == <<>>

\* a < b for two naive datetimes
RECURSIVE FieldsLess(_, _)
FieldsLess(a, b) ==
    IF a = <<>> \/ b = <<>> THEN FALSE
    ELSE IF a[1] # b[1] THEN a[1] < b[1]
    ELSE FieldsLess(Tail(a), Tail(b))

(***************************************************************************)
(* App.datapoints, date_t_re, status_url_re                                *)
(***************************************************************************)

\* The keys of App.datapoints, in declaration order.
datapoints ==
    << "registrar", "whois_server", "referral_url",
       "updated_date", "creation_date", "expiration_date",
       "name_servers", "status", "emails", "dnssec",
       "name", "org", "address", "city", "state", "zipcode",
       "ip", "mx" >>

\* The English label App.datapoints gives each key.
Label(key) ==
    CASE key = "registrar" -> "Registrar"
      [] key = "whois_server" -> "WHOIS Server"
      [] key = "referral_url" -> "Referral URL"
      [] key = "updated_date" -> "Updated Date"
      [] key = "creation_date" -> "Creation Date"
      [] key = "expiration_date" -> "Expiration Date"
      [] key = "name_servers" -> "Nameservers"
      [] key = "status" -> "Status"
      [] key = "emails" -> "Emails"
      [] key = "dnssec" -> "DNSSEC"
      [] key = "name" -> "Registrant Name"
      [] key = "org" -> "Registrant Organization"
      [] key = "address" -> "Registrant Address"
      [] key = "city" -> "Registrant City"
      [] key = "state" -> "Registrant State"
      [] key = "zipcode" -> "Registrant Zipcode"
      [] key = "ip" -> "IP Address"
      [] key = "mx" -> "MX Addresses"

\* The number of leading decimal digits of s.
RECURSIVE DigitsPrefixLen(_)
DigitsPrefixLen(s) ==
    IF s = <<>> \/ ~IsDigit(s[1]) THEN 0 ELSE 1 + DigitsPrefixLen(Tail(s))

\* s against  \d+ sep1 \d+ sep2 ... \d+ $ : the numbers, or <<>> for no match.
RECURSIVE MatchNumbers(_, _)
MatchNumbers(s, seps) ==
    LET n == DigitsPrefixLen(s)
    IN  IF n = 0 THEN <<>>
        ELSE IF seps = <<>>
             THEN IF n = Len(s) THEN <<StrToInt(s)>> ELSE <<>>
        ELSE IF n < Len(s) /\ s[n + 1] = seps[1]
             THEN LET rest == MatchNumbers(SubSeq(s, n + 2, Len(s)), Tail(seps))
                  IN  IF rest = <<>> THEN <<>>
                      ELSE <<StrToInt(SubSeq(s, 1, n))>> \o rest
        ELSE <<>>

\* date_t_re.match(s): <<year, month, day, hour, min, sec>>, or <<>> for None
date_t_re(s) == MatchNumbers(s, <<"-", "-", "T", ":", ":">>)

IsLeap(y) == (y % 4 = 0 /\ y % 100 # 0) \/ y % 400 = 0

DaysInMonth(y, m) ==
    IF m = 2 THEN (IF IsLeap(y) THEN 29 ELSE 28)
    ELSE IF m \in {4, 6, 9, 11} THEN 30 ELSE 31

\* Whether datetime.datetime(*f) is accepted (it raises ValueError otherwise).
ValidFields(f) ==
    /\ f[1] >= 1 /\ f[1] <= 9999
    /\ f[2] >= 1 /\ f[2] <= 12
    /\ f[3] >= 1 /\ f[3] <= DaysInMonth(f[1], f[2])
    /\ f[4] <= 23 /\ f[5] <= 59 /\ f[6] <= 59

Http == <<"h", "t", "t", "p">>

\* r against  " " \(? http \S+? \)? $
IsUrlSuffix(r) ==
    /\ Len(r) >= 1
    /\ r[1] = " "
    /\ LET r2 == Tail(r)
           r3 == IF r2 # <<>> /\ r2[1] = "(" THEN Tail(r2) ELSE r2
       IN  /\ Len(r3) > Len(Http)
           /\ SubSeq(r3, 1, Len(Http)) = Http
           /\ \A i \in (Len(Http) + 1)..Len(r3) : r3[i] # " "

\* A slip: the URL is not taken off.
StatusUrlKept(s) == s

\* status_url_re.match(s).group('status'): the shortest prefix of s that is
\* followed by nothing or by a URL suffix.  (The model's texts hold no line
\* break, so the pattern always matches.)
status_url_re(s) ==
    LET i == CHOOSE i \in 0..Len(s) :
                 /\ i = Len(s) \/ IsUrlSuffix(SubSeq(s, i + 1, Len(s)))
                 /\ \A j \in 0..(i - 1) : ~IsUrlSuffix(SubSeq(s, j + 1, Len(s)))
    IN  SubSeq(s, 1, i)

(***************************************************************************)
(* App._clean_parsed_data                                                  *)
(*                                                                         *)
(* A step of the clean-up ends "ok" with a value, "exit" (the reported     *)
(* fatal error, self.exit(1)) or "raise" (an exception nothing catches).   *)
(***************************************************************************)

Ok(v) == [st |-> "ok", v |-> v]

Exit == [st |-> "exit", v |-> PyNone]

Raise == [st |-> "raise", v |-> PyNone]

\* A slip: a date in an unknown format is taken for the epoch, not refused.
CleanDateStrCoerced(m) ==
    IF m = <<>> THEN Ok(PyDatetime(<<1970, 1, 1, 0, 0, 0>>, 0, Naive))
    ELSE IF ValidFields(m) THEN Ok(PyDatetime(m, 0, Naive))
    ELSE Raise

\* One pass of the loop over `dates` (lines 550-579).
\* Lines 558-573: one date given as a str, m the groups date_t_re matched.
CleanDateStr(m) ==
    IF m = <<>> THEN Exit
    ELSE IF ValidFields(m) THEN Ok(PyDatetime(m, 0, Naive))
    ELSE Raise                              \* datetime(...): ValueError

\* Lines 550-573: one pass of the loop over `dates`.
CleanDate(date) ==
    IF date.k = "datetime"
    THEN Ok(PyDatetime(date.f, 0, Naive))
    ELSE IF date.k # "str" THEN Raise       \* re.match(None): TypeError
    ELSE CleanDateStr(date_t_re(date.s))

\* new_dates.append(...) after a pass that did not fail
AppendedTo(first, rest) ==
    IF first.st # "ok" THEN first
    ELSE IF rest.st # "ok" THEN rest
    ELSE Ok(<<first.v>> \o rest.v)

\* The loop over `dates`: the new_dates list, or the first failure.
RECURSIVE CleanDates(_)
CleanDates(dates) ==
    IF dates = <<>> THEN Ok(<<>>)
    ELSE AppendedTo(CleanDate(dates[1]), CleanDates(Tail(dates)))

\* A slip: the first date of the list is taken for the latest.
MaxDateFirst(l) == l[1]

\* max(l) / min(l) of naive datetimes
MaxDate(l) == l[CHOOSE i \in 1..Len(l) : \A j \in 1..Len(l) : ~FieldsLess(l[i].f, l[j].f)]

MinDate(l) == l[CHOOSE i \in 1..Len(l) : \A j \in 1..Len(l) : ~FieldsLess(l[j].f, l[i].f)]

\* Line 580: func(new_dates)
Reduced(new_dates, func) ==
    IF new_dates.st # "ok" THEN new_dates
    ELSE IF new_dates.v = <<>> THEN Raise     \* max([]): ValueError
    ELSE Ok(IF func = "max" THEN MaxDate(new_dates.v) ELSE MinDate(new_dates.v))

\* Lines 545-580 for one key: func is "max" or "min".
CleanDateKey(value, func) ==
    Reduced(CleanDates(IF value.k = "list" THEN value.l ELSE <<value>>), func)

\* A slip: line 585 without .lower().
CleanNameServersNoLower(value) ==
    IF value.k = "list"
    THEN IF \A i \in 1..Len(value.l) : value.l[i].k = "str"
         THEN Ok(PyStr(Join(CommaSpace,
                  SortedSet({value.l[i].s : i \in 1..Len(value.l)}))))
         ELSE Raise
    ELSE IF value.k = "str"
    THEN Ok(PyStr(Join(CommaSpace,
             SortedSet({<<value.s[i]>> : i \in 1..Len(value.s)}))))
    ELSE Raise

\* Lines 582-586.  Iterating a str yields its characters.
CleanNameServers(value) ==
    IF value.k = "list"
    THEN IF \A i \in 1..Len(value.l) : value.l[i].k = "str"
         THEN Ok(PyStr(Join(CommaSpace,
                  SortedSet({Lower(value.l[i].s) : i \in 1..Len(value.l)}))))
         ELSE Raise
    ELSE IF value.k = "str"
    THEN Ok(PyStr(Join(CommaSpace,
             SortedSet({<<LowerChar(value.s[i])>> : i \in 1..Len(value.s)}))))
    ELSE Raise                              \* for ns in None: TypeError

\* Lines 591-602.
CleanStatus(value) ==
    LET statuses == IF value.k = "list" THEN value.l ELSE <<value>>
    IN  IF \A i \in 1..Len(statuses) : statuses[i].k = "str"
        THEN Ok(PyStr(Join(CommaSpace,
                 SortedSet({status_url_re(statuses[i].s) : i \in 1..Len(statuses)}))))
        ELSE Raise                          \* re.match(None): TypeError

\* Lines 604-606.
CleanEmails(value) ==
    IF value.k = "list"
    THEN IF \A i \in 1..Len(value.l) : value.l[i].k = "str"
         THEN Ok(PyStr(Join(CommaSpace,
                  SortedList([i \in 1..Len(value.l) |-> value.l[i].s]))))
         ELSE Raise
    ELSE Ok(value)

\* parsed_data[key] = ..., when the value was worked out
Assigned(parsed_data, key, value) ==
    IF value.st # "ok" THEN value
    ELSE Ok([parsed_data EXCEPT ![key] = value.v])

\* Lines 540-580: the loop over the three date keys.
CleanDateKeys(parsed_data, keys) ==
    LET Step(acc, i) ==
            IF acc.st # "ok" THEN acc
            ELSE Assigned(acc.v, keys[i][1], CleanDateKey(acc.v[keys[i][1]], keys[i][2]))
    IN  Step(Step(Step(Ok(parsed_data), 1), 2), 3)

\* Lines 582-606: name_servers, status, emails.
CleanLists(cleaned) ==
    LET NameServers(acc) ==
            IF acc.st # "ok" THEN acc
            ELSE Assigned(acc.v, "name_servers", CleanNameServers(acc.v["name_servers"]))
        Status(acc) ==
            IF acc.st # "ok" THEN acc
            ELSE Assigned(acc.v, "status", CleanStatus(acc.v["status"]))
        Emails(acc) ==
            IF acc.st # "ok" THEN acc
            ELSE Assigned(acc.v, "emails", CleanEmails(acc.v["emails"]))
    IN  Emails(Status(NameServers(cleaned)))

\* _clean_parsed_data(domain, parsed_data): the dict after the in-place
\* changes, or how the clean-up failed.
CleanParsedData(parsed_data) ==
    CleanLists(CleanDateKeys(parsed_data,
                             << <<"updated_date", "max">>,
                                <<"creation_date", "min">>,
                                <<"expiration_date", "min">> >>))

(***************************************************************************)
(* App._inject_dns_lookups, App._inject_dns_placeholder                    *)
(*                                                                         *)
(* One resolver query ends with an answer (a set of records), with         *)
(* dns.resolver.NoAnswer, or with another exception ("error": NXDOMAIN,    *)
(* Timeout, NoNameservers), which the code does not catch.                 *)
(***************************************************************************)

Answer(rr) == [st |-> "answer", rr |-> rr]

NoAnswer == [st |-> "NoAnswer", rr |-> {}]

DnsError == [st |-> "error", rr |-> {}]

\* f'{rdata.preference}/{exch}', the exchange without its final dot
MxToken(rdata) ==
    LET exch == IF rdata.exchange # <<>> /\ rdata.exchange[Len(rdata.exchange)] = "."
                THEN SubSeq(rdata.exchange, 1, Len(rdata.exchange) - 1)
                ELSE rdata.exchange
    IN  IntToStr(rdata.preference) \o <<"/">> \o exch

\* The number of dns.resolver.query calls _inject_dns_lookups makes on `dns`.
DnsQueries(dns) ==
    IF dns["A"].st = "error" THEN 1
    ELSE IF dns["AAAA"].st = "error" THEN 2
    ELSE 3

\* _inject_dns_lookups(domain, parsed_data), the resolver answering `dns`
InjectDnsLookups(parsed_data, dns) ==
    IF \E t \in {"A", "AAAA", "MX"} : dns[t].st = "error"
    THEN Raise
    ELSE LET ips == dns["A"].rr \cup dns["AAAA"].rr
             mx == {MxToken(rdata) : rdata \in dns["MX"].rr}
         IN  Ok(("ip" :> PyStr(Join(CommaSpace, SortedSet(ips))))
                @@ ("mx" :> PyStr(Join(CommaSpace, SortedSet(mx))))
                @@ parsed_data)

LookupsDisabled ==
    << "(", "l", "o", "o", "k", "u", "p", "s", " ",
       "d", "i", "s", "a", "b", "l", "e", "d", ")" >>

\* _inject_dns_placeholder(parsed_data)
InjectDnsPlaceholder(parsed_data) ==
    ("ip" :> PyStr(LookupsDisabled)) @@ ("mx" :> PyStr(LookupsDisabled))
    @@ parsed_data

(***************************************************************************)
(* The store: rows of the tables domain, state and changed                 *)
(***************************************************************************)

\* SQL NULL, and a value of a nullable column
NULL == <<>>

Val(v) == <<v>>

\* select * from domain where domain=d  (fetchone)
HaveDomain(domain_t, d) == \E r \in domain_t : r.domain = d

DomainRow(domain_t, d) == CHOOSE r \in domain_t : r.domain = d

\* select * from state where id=i  (fetchone)
StateRow(state_t, i) == CHOOSE r \in state_t : r.id = i

\* f'{n:0{width}}'
RECURSIVE ZeroPad(_, _)
ZeroPad(n, width) ==
    IF width = 0 THEN <<>>
    ELSE ZeroPad(n \div 10, width - 1) \o <<Alphabet[CharOrd("0") + (n % 10)]>>

\* What a datetime column gives back for the value it was given: whole
\* seconds, no zone.  The other columns give the value back.
ColumnValue(v) == IF v.k = "datetime" THEN PyDatetime(v.f, 0, Naive) ELSE v

\* What a varchar column gives back for the value it was given: a datetime
\* goes in as the text 'YYYY-MM-DD HH:MM:SS'.
VarcharValue(v) ==
    IF v.k = "datetime"
    THEN PyStr(ZeroPad(v.f[1], 4) \o <<"-">> \o ZeroPad(v.f[2], 2) \o <<"-">>
               \o ZeroPad(v.f[3], 2) \o <<" ">> \o ZeroPad(v.f[4], 2) \o <<":">>
               \o ZeroPad(v.f[5], 2) \o <<":">> \o ZeroPad(v.f[6], 2))
    ELSE v

\* update domain set <f>=v where domain=d
UpdateDomain(domain_t, d, f, v) ==
    {IF r.domain = d THEN [r EXCEPT ![f] = v] ELSE r : r \in domain_t}

\* The row `insert into domain (domain, active_checks, do_dns)` creates.
NewDomainRow(d, do_dns_db) ==
    [domain |-> d, last_state |-> NULL, active_checks |-> 1,
     do_dns |-> do_dns_db, last_checked |-> NULL, cur_raw_text |-> NULL]

\* The row `insert into state (...)` creates for parsed_data.
NewStateRow(id, d, check_time, raw_text, parsed_data) ==
    [k \in {"id", "domain", "check_time", "raw_text"} |->
        CASE k = "id" -> id
          [] k = "domain" -> d
          [] k = "check_time" -> check_time
          [] k = "raw_text" -> raw_text]
    @@ [k \in Range(datapoints) |-> ColumnValue(parsed_data[k])]

\* unique index domtime_idx (domain, check_time)
DomtimeFree(state_t, d, check_time) ==
    ~\E r \in state_t : r.domain = d /\ r.check_time = check_time

\* Lines 689-695: the (label, from, to) tuples, in datapoints order.
RECURSIVE DifferencesFrom(_, _, _)
DifferencesFrom(keys, prev_state, parsed_data) ==
    IF keys = <<>> THEN <<>>
    ELSE (IF prev_state[keys[1]] # parsed_data[keys[1]]
          THEN << <<Label(keys[1]), prev_state[keys[1]], parsed_data[keys[1]]>> >>
          ELSE <<>>)
         \o DifferencesFrom(Tail(keys), prev_state, parsed_data)

Differences(prev_state, parsed_data) ==
    DifferencesFrom(datapoints, prev_state, parsed_data)

\* Lines 761-765: the rows inserted into changed, ids from first_id on.
ChangedRows(differences, new_state_id, first_id) ==
    {[id |-> first_id + i - 1, state |-> new_state_id,
      info |-> differences[i][1], val_from |-> VarcharValue(differences[i][2]),
      val_to |-> VarcharValue(differences[i][3])] : i \in 1..Len(differences)}

\* A slip: the select without its where clause.
EveryDomain(domain_t) == {r.domain : r \in domain_t}

\* select domain from domain where active_checks=1
ActiveDomains(domain_t) == {r.domain : r \in {q \in domain_t : q.active_checks = 1}}

(***************************************************************************)
(* The collaborators' answers the model draws from                         *)
(***************************************************************************)

\* Raw whois texts: what NICClient.whois_lookup returns, or a file's content.
SocketText == "Socket not responding: [Errno 110] Connection timed out"

RawTexts ==
    {SocketText, "whois A", "whois A, other layout", "whois B", "whois C, odd date"}

\* A slip: the test for the communication error never matches.
NeverSocketError(check_data) == FALSE

\* 'Socket not responding' in check_data
SocketNotResponding(check_data) == check_data = SocketText

EntryA ==
    [registrar |-> PyStr(<<"R", "1">>),
     whois_server |-> PyStr(<<"w", ".", "i", "o">>),
     referral_url |-> PyNone,
     updated_date |-> PyList(<<PyDatetime(<<2021, 5, 1, 0, 0, 0>>, 0, Naive),
                              PyDatetime(<<2022, 3, 4, 5, 6, 7>>, 250000, Naive)>>),
     creation_date |-> PyDatetime(<<2010, 1, 2, 3, 4, 5>>, 0, <<60>>),
     expiration_date |-> PyStr(<<"2", "0", "3", "0", "-", "0", "1", "-", "0", "2",
                                 "T", "0", "3", ":", "0", "4", ":", "0", "5">>),
     name_servers |-> PyList(<<PyStr(<<"N", "S", "2", ".", "X">>),
                              PyStr(<<"n", "s", "1", ".", "x">>)>>),
     status |-> PyList(<<PyStr(<<"o", "k", " ", "h", "t", "t", "p", ":", "/", "/",
                                 "i", ".", "c", "/", "o", "k">>),
                        PyStr(<<"o", "k">>)>>),
     emails |-> PyList(<<PyStr(<<"b", "@", "x">>), PyStr(<<"a", "@", "x">>)>>),
     dnssec |-> PyStr(<<"n", "o">>),
     name |-> PyNone,
     org |-> PyStr(<<"O", "r", "g">>),
     address |-> PyNone,
     city |-> PyNone,
     state |-> PyNone,
     zipcode |-> PyNone]

\* The same registration as EntryA, as another server layout parses.
EntryA2 ==
    [EntryA EXCEPT
       !.updated_date = PyDatetime(<<2022, 3, 4, 5, 6, 7>>, 0, Naive),
       !.name_servers = PyList(<<PyStr(<<"n", "s", "1", ".", "X">>),
                                 PyStr(<<"n", "s", "2", ".", "x">>),
                                 PyStr(<<"N", "S", "1", ".", "x">>)>>),
       !.status = PyStr(<<"o", "k">>),
       !.emails = PyList(<<PyStr(<<"a", "@", "x">>), PyStr(<<"b", "@", "x">>)>>)]

\* EntryA after a change of registrar.
EntryB == [EntryA EXCEPT !.registrar = PyStr(<<"R", "2">>)]

\* EntryA with an expiration date in a format date_t_re does not know.
EntryC == [EntryA EXCEPT !.expiration_date = PyStr(<<"n", "/", "a">>)]

\* whois.WhoisEntry.load(domain, check_data)
WhoisEntryLoad(d, check_data) ==
    CASE check_data = "whois A" -> EntryA
      [] check_data = "whois A, other layout" -> EntryA2
      [] check_data = "whois B" -> EntryB
      [] OTHER -> EntryC

\* What the resolver may answer to the A, AAAA and MX queries of one check.
DnsOutcomes ==
    { [A |-> NoAnswer, AAAA |-> NoAnswer, MX |-> NoAnswer],
      [A |-> Answer({<<"1", ".", "2">>}), AAAA |-> NoAnswer,
       MX |-> Answer({[preference |-> 10, exchange |-> <<"m", ".", "x", ".">>]})],
      [A |-> Answer({<<"1", ".", "2">>}), AAAA |-> DnsError, MX |-> NoAnswer] }

\* The resolver's answers Spec draws from.
SpecDnsOutcomes == {dns \in DnsOutcomes : dns.A # NoAnswer}

\* The watched names.
DomainNames == { <<"b", ".", "i", "o">>, <<"a", ".", "i", "o">> }

DNSBehavior == {"DOMAIN_DEFAULT", "FORCE_YES", "FORCE_NO"}

\* The command lines Spec draws from: no option, or --no-dns.
SpecDNSBehavior == {"DOMAIN_DEFAULT", "FORCE_NO"}

(***************************************************************************)
(* Bounds                                                                  *)
(***************************************************************************)

\* --retries takes the values 0..MaxRetries
MaxRetries == 2

\* the clock reads 0..MaxTime (whole seconds, as now() and check_time do)
MaxTime == 1

\* the state table's auto_increment goes up to MaxStateId
MaxStateId == 2

\* the lists given to the clean-up have up to MaxLen entries
MaxLen == 3

\* --secs, the default
DefaultSecs == 30

(***************************************************************************)
(* State                                                                   *)
(***************************************************************************)

VARIABLES
    committed,     \* the tables as committed: what any other connection reads
    domain,        \* table domain, as this connection sees it (self.cur)
    state,         \* table state, as this connection sees it
    changed,       \* table changed, as this connection sees it
    state_auto,    \* table state: the next auto_increment id
    changed_auto,  \* table changed: the next auto_increment id
    now,           \* the store's clock, whole seconds
    pc,            \* where the running process is
    app,           \* the App object: dns_behavior, delay_between_domains, max_retries
    cmd,           \* main(): the command line's action and the exit status
    run,           \* the frame of check_all_domains
    chk,           \* the frame of check_domain and _store_state
    prg,           \* the frame of purge_domain or set_domain_status
    events,        \* what the process has done so far, in order
    purged         \* the domains purge_domain has removed, until a later
                   \* process has ended with them in the store again

vars ==
    << committed, domain, state, changed, state_auto, changed_auto, now,
       pc, app, cmd, run, chk, prg, events, purged >>

tables == [domain |-> domain, state |-> state, changed |-> changed]

NoTables == [domain |-> {}, state |-> {}, changed |-> {}]

NoApp == [dns_behavior |-> "DOMAIN_DEFAULT", delay_between_domains |-> DefaultSecs,
          max_retries |-> 0]

NoCmd == [name |-> "none", domain |-> <<>>, exit |-> 0]

NoRun == [status |-> "none", active |-> {}, todo |-> <<>>, first |-> TRUE,
          have_changes |-> FALSE]

NoChk == [status |-> "none", domain |-> <<>>, live |-> FALSE, check_data |-> NULL,
          do_dns |-> FALSE, attempts |-> 0, parsed_data |-> <<>>,
          store_state |-> FALSE, differences |-> <<>>, new_state_id |-> NULL,
          ret |-> FALSE, at_store |-> FALSE, pre |-> NoTables, stored_at |-> NULL,
          lookups |-> <<>>]

NoPrg == [status |-> "none", domain |-> <<>>, pre |-> NoTables]

Event(e, d, n) == [e |-> e, d |-> d, n |-> n]

Init ==
    /\ committed = NoTables
    /\ domain = {}
    /\ state = {}
    /\ changed = {}
    /\ state_auto = 1
    /\ changed_auto = 1
    /\ now = 0
    /\ pc = "idle"
    /\ app = NoApp
    /\ cmd = NoCmd
    /\ run = NoRun
    /\ chk = NoChk
    /\ prg = NoPrg
    /\ events = <<>>
    /\ purged = {}

(***************************************************************************)
(* App._store_state                                                        *)
(*                                                                         *)
(* t is the three tables as the connection sees them: a record with the    *)
(* fields domain, state and changed.                                       *)
(***************************************************************************)

\* Lines 676-686: the previous state of the domain, NULL when there is none.
PrevState(t, d) ==
    IF HaveDomain(t.domain, d) /\ DomainRow(t.domain, d).last_state # NULL
    THEN Val(StateRow(t.state, DomainRow(t.domain, d).last_state[1]))
    ELSE NULL

\* A slip: a state is stored whatever the comparison finds.
StoreStateAlways(prev, parsed_data) == TRUE

\* A slip: the else branch of line 696 does not set store_state.
StoreStateOnlyOnDifference(prev, parsed_data) ==
    IF prev # NULL THEN Differences(prev[1], parsed_data) # <<>> ELSE FALSE

\* Lines 688-699: store_state.
StoreState(prev, parsed_data) ==
    IF prev # NULL THEN Differences(prev[1], parsed_data) # <<>> ELSE TRUE

\* A slip: the update of lines 701-706 without do_dns=%s.
StoreUpdateNoDns(t, d, check_data, clock, do_dns) ==
    [t EXCEPT !.domain =
        UpdateDomain(UpdateDomain(t.domain, d, "cur_raw_text", check_data),
                     d, "last_checked", Val(clock))]

\* A slip: the update of lines 701-706 is made only for a new state, so that
\* an unchanged domain keeps its old cur_raw_text and last_checked.
StoreUpdateSkipped(t, d, check_data, clock, do_dns) == t

\* Lines 701-706: update domain set cur_raw_text, last_checked=now(), do_dns.
StoreUpdate(t, d, check_data, clock, do_dns) ==
    [t EXCEPT !.domain =
        UpdateDomain(
          UpdateDomain(
            UpdateDomain(t.domain, d, "cur_raw_text", check_data),
            d, "last_checked", Val(clock)),
          d, "do_dns", IF do_dns THEN 1 ELSE 0)]

\* Whether the store accepts the insert of lines 710-750: the unique index
\* domtime_idx and the foreign key fk_domain.
StoreInsertOk(t, d, clock) ==
    DomtimeFree(t.state, d, clock) /\ HaveDomain(t.domain, d)

\* A slip: the update of lines 753-758 is missing.
StoreInsertNoPointer(t, d, clock, raw_text, parsed_data, differences, new_state_id, first_id) ==
    [domain |-> t.domain,
     state |-> t.state \cup {NewStateRow(new_state_id, d, clock, raw_text, parsed_data)},
     changed |-> t.changed \cup ChangedRows(differences, new_state_id, first_id)]

\* A slip: the new state takes the place of the domain's states (replace
\* into state) where it is to be added to them.
StoreInsertReplacing(t, d, clock, raw_text, parsed_data, differences, new_state_id, first_id) ==
    [domain |-> UpdateDomain(t.domain, d, "last_state", Val(new_state_id)),
     state |-> {r \in t.state : r.domain # d}
                 \cup {NewStateRow(new_state_id, d, clock, raw_text, parsed_data)},
     changed |-> t.changed \cup ChangedRows(differences, new_state_id, first_id)]

\* Lines 709-765: the new state row, the domain's last_state, the changed rows.
StoreInsert(t, d, clock, raw_text, parsed_data, differences, new_state_id, first_id) ==
    [domain |-> UpdateDomain(t.domain, d, "last_state", Val(new_state_id)),
     state |-> t.state \cup {NewStateRow(new_state_id, d, clock, raw_text, parsed_data)},
     changed |-> t.changed \cup ChangedRows(differences, new_state_id, first_id)]

\* Lines 701-765, store_state and differences being known.  A refused insert
\* has used up its auto_increment id all the same.
StoreStateWith(t, sa, ca, clock, d, check_data, parsed_data, store_state, differences) ==
    IF ~store_state
    THEN [raised |-> FALSE, tables |-> t, state_auto |-> sa, changed_auto |-> ca,
          store_state |-> FALSE, differences |-> differences,
          new_state_id |-> NULL]
    ELSE IF ~StoreInsertOk(t, d, clock)
    THEN [raised |-> TRUE, tables |-> t, state_auto |-> sa + 1, changed_auto |-> ca,
          store_state |-> TRUE, differences |-> differences,
          new_state_id |-> NULL]
    ELSE [raised |-> FALSE,
          tables |-> StoreInsert(t, d, clock, check_data[1], parsed_data,
                                 differences, sa, ca),
          state_auto |-> sa + 1, changed_auto |-> ca + Len(differences),
          store_state |-> TRUE, differences |-> differences,
          new_state_id |-> Val(sa)]

\* Lines 688-695: differences.
DifferencesOf(prev, parsed_data) ==
    IF prev # NULL THEN Differences(prev[1], parsed_data) ELSE <<>>

\* _store_state(domain, check_data, parsed_data, do_dns) up to its commit:
\* the tables of the open transaction, or raised when the insert is refused
\* (IntegrityError, which nothing catches).
StoreStateCall(t, sa, ca, clock, d, check_data, parsed_data, do_dns) ==
    StoreStateWith(StoreUpdate(t, d, check_data, clock, do_dns), sa, ca, clock, d,
                   check_data, parsed_data,
                   StoreState(PrevState(t, d), parsed_data),
                   DifferencesOf(PrevState(t, d), parsed_data))

(***************************************************************************)
(* App.check_domain                                                        *)
(***************************************************************************)

\* A slip: line 486 is missing, the stored flag is not looked at.
DoDnsIgnoresRow(dns_behavior, known, row) == dns_behavior # "FORCE_NO"

\* Lines 462-486: the do_dns of this check.
DoDns(dns_behavior, known, row) ==
    IF ~known THEN dns_behavior # "FORCE_NO"
    ELSE IF dns_behavior = "FORCE_YES" THEN TRUE
    ELSE IF dns_behavior = "FORCE_NO" THEN FALSE
    ELSE row.do_dns = 1

\* Lines 465-470: the do_dns column of a domain that is added.
DoDnsDb(dns_behavior) == IF dns_behavior = "FORCE_NO" THEN 0 ELSE 1

\* A slip: the insert of lines 463-475 is missing.
CheckDomainCallNoInsert(t, a, d, check_data) ==
    [tables |-> t,
     frame |-> [NoChk EXCEPT !.status = "running", !.domain = d,
                             !.live = (check_data = NULL),
                             !.check_data = check_data,
                             !.do_dns = a.dns_behavior # "FORCE_NO",
                             !.pre = t]]

\* Lines 459-486: the domain row is looked up, and added and committed when
\* missing.  check_data is NULL (None) for a live check.
CheckDomainCall(t, a, d, check_data) ==
    LET known == HaveDomain(t.domain, d)
        row == IF known THEN DomainRow(t.domain, d) ELSE NewDomainRow(d, 0)
    IN  [tables |-> IF known THEN t
                    ELSE [t EXCEPT !.domain =
                            @ \cup {NewDomainRow(d, DoDnsDb(a.dns_behavior))}],
         frame |-> [NoChk EXCEPT !.status = "running", !.domain = d,
                                 !.live = (check_data = NULL),
                                 !.check_data = check_data,
                                 !.do_dns = DoDns(a.dns_behavior, known, row),
                                 !.pre = t]]

\* A slip: line 499 without the bound, so that the loop asks again as long
\* as the answer is the communication error.
AgainUnbounded(attempts, max_retries, check_data) ==
    SocketNotResponding(check_data)

\* A slip: line 499 with <= for <.
AgainOffByOne(attempts, max_retries, check_data) ==
    attempts <= max_retries /\ SocketNotResponding(check_data)

\* Line 499: whether the loop pauses and asks again.
Again(attempts, max_retries, check_data) ==
    attempts < max_retries /\ SocketNotResponding(check_data)

\* A slip: line 507 with False for True.
CommunicationErrorIgnored == FALSE

\* Line 507: what check_domain returns when it gives up on the whois server.
CommunicationErrorResult == TRUE

\* Lines 508-509: parsed_data after WhoisEntry.load and _clean_parsed_data,
\* tabulated over the texts the model draws from.
ParsedDataOf ==
    [d \in DomainNames, text \in RawTexts |->
        CleanParsedData(WhoisEntryLoad(d, text))]

\* Lines 511-514: parsed_data with ip and mx.
Injected(cleaned, do_dns, dns) ==
    IF cleaned.st # "ok" THEN cleaned
    ELSE IF do_dns THEN InjectDnsLookups(cleaned.v, dns)
    ELSE Ok(InjectDnsPlaceholder(cleaned.v))

\* The same, tabulated.
InjectedOf ==
    [d \in DomainNames, text \in RawTexts, do_dns \in BOOLEAN, dns \in DnsOutcomes |->
        Injected(ParsedDataOf[d, text], do_dns, dns)]

\* How a check_domain call ends: "returned", or "raised" by an exception
\* nothing catches, or "exited" by self.exit(1); what it returns; the tables
\* it leaves committed; its frame, and what it did on the way: the DNS
\* queries, the report of the communication error (line 506), the state row
\* it stored.
CheckEnd(how, ret, t, sa, ca, frame, ev) ==
    [how |-> how, ret |-> ret, tables |-> t, state_auto |-> sa,
     changed_auto |-> ca, frame |-> frame, ev |-> ev]

\* Lines 517-520: _store_state was called and ended as st.  When it raised,
\* the tables stay as committed: the process ends and the store rolls the
\* open transaction back.
CheckDomainStored(t, sa, ca, clock, frame, parsed_data, st, ev) ==
    LET f == [frame EXCEPT !.parsed_data = parsed_data,
                            !.store_state = st.store_state,
                            !.differences = st.differences,
                            !.new_state_id = st.new_state_id,
                            !.at_store = TRUE,
                            !.stored_at = Val(clock)]
    IN  IF st.raised
        THEN CheckEnd("raised", FALSE, t, st.state_auto, ca, f, ev)
        ELSE CheckEnd("returned", st.store_state, st.tables, st.state_auto,
                      st.changed_auto, f,
                      ev \o [i \in 1..Cardinality(st.tables.state \ t.state) |->
                                Event("stored", frame.domain, sa)])

\* Lines 508-520: check_data is a whois answer; injected is parsed_data
\* after the clean-up and the DNS lookups, or how they failed.
CheckDomainParsed(t, sa, ca, clock, frame, cleaned, injected, ev) ==
    IF cleaned.st # "ok"
    THEN CheckEnd(IF cleaned.st = "exit" THEN "exited" ELSE "raised", FALSE,
                  t, sa, ca, frame, <<>>)
    ELSE IF injected.st # "ok"
    THEN CheckEnd("raised", FALSE, t, sa, ca, frame, ev)
    ELSE CheckDomainStored(t, sa, ca, clock, frame, injected.v,
                           StoreStateCall(t, sa, ca, clock, frame.domain,
                                          frame.check_data, injected.v,
                                          frame.do_dns),
                           ev)

\* Lines 505-520, once check_data is settled.  The resolver answers `dns`.
CheckDomainRest(t, sa, ca, clock, frame, dns) ==
    IF frame.check_data = NULL
    THEN CheckEnd("raised", FALSE, t, sa, ca, frame, <<>>)  \* `in None`: TypeError
    ELSE IF SocketNotResponding(frame.check_data[1])
    THEN CheckEnd("returned", CommunicationErrorResult, t, sa, ca, frame,
                  <<Event("communication_error", frame.domain, 0)>>)
    ELSE CheckDomainParsed(t, sa, ca, clock, frame,
                           ParsedDataOf[frame.domain, frame.check_data[1]],
                           InjectedOf[frame.domain, frame.check_data[1],
                                      frame.do_dns, dns],
                           IF frame.do_dns
                           THEN <<Event("dns_query", frame.domain, DnsQueries(dns))>>
                           ELSE <<>>)

(***************************************************************************)
(* App.purge_domain                                                        *)
(***************************************************************************)

\* _get_state_ids(domain): the ids of the domain's states, oldest first.
RECURSIVE StateIdsOf(_)
StateIdsOf(rows) ==
    IF rows = {} THEN <<>>
    ELSE LET r == CHOOSE q \in rows : \A o \in rows : q.check_time <= o.check_time
         IN  <<r.id>> \o StateIdsOf(rows \ {r})

GetStateIds(t, d) == StateIdsOf({r \in t.state : r.domain = d})

\* A slip: the delete of lines 857-862 without its where clause.
PurgeChangedAll(t, ids) == [t EXCEPT !.changed = {}]

\* Lines 857-862: delete from changed where state in (...).
PurgeChanged(t, ids) ==
    [t EXCEPT !.changed = {c \in @ : c.state \notin Range(ids)}]

\* A slip: the update of lines 864-870 is missing.
PurgeDetachSkipped(t, d) == t

\* Lines 864-870: update domain set last_state=null.
PurgeDetach(t, d) == [t EXCEPT !.domain = UpdateDomain(@, d, "last_state", NULL)]

\* Lines 872-877: delete from state where id in (...).  The foreign keys of
\* changed.state and domain.last_state refuse the delete of a referenced state.
PurgeStatesOk(t, ids) ==
    \A i \in Range(ids) :
        /\ ~\E c \in t.changed : c.state = i
        /\ ~\E r \in t.domain : r.last_state = Val(i)

\* A slip: the delete of line 873 without its where clause.
PurgeStatesNoWhere(t, ids) == [t EXCEPT !.state = {}]

PurgeStates(t, ids) == [t EXCEPT !.state = {r \in @ : r.id \notin Range(ids)}]

\* Lines 879-883: delete from domain.  The foreign key fk_domain of
\* state.domain refuses the delete of a domain that has states.
PurgeDomainOk(t, d) == ~\E r \in t.state : r.domain = d

\* A slip: the delete of lines 879-883 is missing.
PurgeDomainRowKept(t, d) == t

PurgeDomainRow(t, d) == [t EXCEPT !.domain = {r \in @ : r.domain # d}]

\* purge_domain(domain): how the call ends and the tables it leaves committed.
PurgeDomainCall(t, d) ==
    IF ~HaveDomain(t.domain, d)
    THEN [how |-> "exited", tables |-> t]
    ELSE LET ids == GetStateIds(t, d)
             t2 == PurgeDetach(PurgeChanged(t, ids), d)
             t3 == PurgeStates(t2, ids)
         IN  IF ~PurgeStatesOk(t2, ids) \/ ~PurgeDomainOk(t3, d)
             THEN [how |-> "raised", tables |-> t]
             ELSE [how |-> "returned", tables |-> PurgeDomainRow(t3, d)]

(***************************************************************************)
(* App.set_domain_status                                                   *)
(***************************************************************************)

\* A slip: lines 797-801 are missing, so that the update runs for a domain
\* the store does not know (and changes no row).
SetDomainStatusUnchecked(t, d, active_checks) ==
    [how |-> "returned",
     tables |-> [t EXCEPT !.domain =
                   UpdateDomain(@, d, "active_checks",
                                IF active_checks THEN 1 ELSE 0)]]

\* A slip: the update of lines 810-814 without its where clause.
SetDomainStatusNoWhere(t, d, active_checks) ==
    IF ~HaveDomain(t.domain, d)
    THEN [how |-> "exited", tables |-> t]
    ELSE [how |-> "returned",
          tables |-> [t EXCEPT !.domain =
                        {[r EXCEPT !.active_checks = IF active_checks THEN 1 ELSE 0] :
                            r \in @}]]

\* set_domain_status(domain, active_checks): lines 791-816.
SetDomainStatusCall(t, d, active_checks) ==
    IF ~HaveDomain(t.domain, d)
    THEN [how |-> "exited", tables |-> t]
    ELSE [how |-> "returned",
          tables |-> [t EXCEPT !.domain =
                        UpdateDomain(@, d, "active_checks",
                                     IF active_checks THEN 1 ELSE 0)]]

(***************************************************************************)
(* The process: main(), check_all_domains, check_domain                    *)
(***************************************************************************)

NewApp(dns_behavior, max_retries) ==
    [dns_behavior |-> dns_behavior, delay_between_domains |-> DefaultSecs,
     max_retries |-> max_retries]

\* The tables t are committed and the connection has no open transaction.
Committed(t) ==
    /\ committed' = t
    /\ domain' = t.domain
    /\ state' = t.state
    /\ changed' = t.changed

\* The end o of a check_domain call.  When it returned, main goes on to exit
\* (lines 1178, 1191-1194) or check_all_domains to the next pass of its loop
\* (lines 437-439); otherwise the process is over, with status 1.  The store
\* hands out the state ids 1..MaxStateId.
EndCheck(o, cmd_now, run_now, evs) ==
    /\ o.state_auto <= MaxStateId + 1
    /\ Committed(o.tables)
    /\ state_auto' = o.state_auto
    /\ changed_auto' = o.changed_auto
    /\ chk' = [o.frame EXCEPT !.status = o.how, !.ret = o.ret]
    /\ events' = evs \o o.ev \o <<Event(o.how, o.frame.domain, 0)>>
    /\ IF o.how = "returned"
       THEN IF cmd_now.name = "domain"
            THEN /\ cmd' = [cmd_now EXCEPT !.exit = IF o.ret THEN 2 ELSE 0]
                 /\ run' = run_now
                 /\ pc' = "exited"
            ELSE /\ cmd' = cmd_now
                 /\ run' = [run_now EXCEPT !.have_changes = @ \/ o.ret,
                                           !.first = FALSE]
                 /\ pc' = "ca_loop"
       ELSE /\ cmd' = [cmd_now EXCEPT !.exit = 1]
            /\ run' = IF run_now.status = "running"
                      THEN [run_now EXCEPT !.status = "aborted"] ELSE run_now
            /\ pc' = "exited"

\* check_domain(d, check_data) is called: lines 444-493.  A live check with
\* retries to make goes into the whois loop; any other goes straight on.
BeginCheck(a, d, check_data, dns, cmd_now, run_now, evs) ==
    LET call == CheckDomainCall(tables, a, d, check_data)
        evs1 == evs \o <<Event("check_domain", d, 0)>>
    IN  IF check_data = NULL /\ 0 < a.max_retries
        THEN /\ Committed(call.tables)
             /\ chk' = call.frame
             /\ events' = evs1
             /\ cmd' = cmd_now
             /\ run' = run_now
             /\ pc' = "cd_whois"
             /\ UNCHANGED <<state_auto, changed_auto>>
        ELSE EndCheck(CheckDomainRest(call.tables, state_auto, changed_auto, now,
                                      call.frame, dns),
                      cmd_now, run_now, evs1)

\* -d DOMAIN [-f FILE] [--dns | --no-dns] [-r N]: lines 1167, 1173-1178.
\* check_data is NULL without -f.
MainCheckDomain(d, check_data, dns_behavior, max_retries, dns) ==
    /\ pc = "idle"
    /\ state_auto <= MaxStateId
    /\ app' = NewApp(dns_behavior, max_retries)
    /\ BeginCheck(app', d, check_data, dns,
                  [NoCmd EXCEPT !.name = "domain", !.domain = d], run, events)
    /\ UNCHANGED <<now, prg, purged>>

\* Lines 496-504: one pass of the whois loop, the server answering `text`;
\* and, when the loop is left, the rest of check_domain.
WhoisLookup(text, dns) ==
    /\ pc = "cd_whois"
    /\ LET attempts == chk.attempts + 1
           frame == [chk EXCEPT !.attempts = attempts, !.check_data = Val(text),
                               !.lookups = Append(@, text)]
           evs == events \o <<Event("whois_lookup", chk.domain, attempts)>>
       IN  IF Again(attempts, app.max_retries, text)
           THEN /\ chk' = frame
                /\ events' = evs \o <<Event("retry_sleep", chk.domain,
                                            app.delay_between_domains)>>
                /\ pc' = "cd_whois"
                /\ UNCHANGED <<committed, domain, state, changed, state_auto,
                               changed_auto, cmd, run>>
           ELSE EndCheck(CheckDomainRest(tables, state_auto, changed_auto, now,
                                         frame, dns),
                         cmd, run, evs)
    /\ UNCHANGED <<now, app, prg, purged>>

\* -a [--dns | --no-dns] [-r N]: lines 1167, 1179-1180, 422-430.
MainCheckAll(dns_behavior, max_retries) ==
    /\ pc = "idle"
    /\ state_auto <= MaxStateId
    /\ app' = NewApp(dns_behavior, max_retries)
    /\ cmd' = [NoCmd EXCEPT !.name = "all"]
    /\ run' = [NoRun EXCEPT !.status = "running",
                            !.active = ActiveDomains(domain),
                            !.todo = SortedSet(ActiveDomains(domain))]
    /\ pc' = "ca_loop"
    /\ UNCHANGED <<committed, domain, state, changed, state_auto, changed_auto,
                   now, chk, prg, events, purged>>

\* A slip: line 432 without the test of `first`.
PauseAlways(first) == TRUE

\* Line 432: whether the loop pauses before this domain.
PauseBefore(first) == ~first

\* Lines 431-437: the pause between domains, and the next domain's check.
AllNextDomain(dns) ==
    /\ pc = "ca_loop"
    /\ run.todo # <<>>
    /\ BeginCheck(app, run.todo[1], NULL, dns, cmd,
                  [run EXCEPT !.todo = Tail(@)],
                  events \o (IF PauseBefore(run.first)
                             THEN <<Event("domain_sleep", run.todo[1],
                                          app.delay_between_domains)>>
                             ELSE <<>>))
    /\ UNCHANGED <<now, app, prg, purged>>

\* Lines 441-442, 1191-1194: the loop is over.
AllReturn ==
    /\ pc = "ca_loop"
    /\ run.todo = <<>>
    /\ run' = [run EXCEPT !.status = "returned"]
    /\ cmd' = [cmd EXCEPT !.exit = IF run.have_changes THEN 2 ELSE 0]
    /\ pc' = "exited"
    /\ UNCHANGED <<committed, domain, state, changed, state_auto, changed_auto,
                   now, app, chk, prg, events, purged>>

\* --activate DOMAIN / --deactivate DOMAIN: lines 1187-1188, 791-820.
MainSetDomainStatus(d, active_checks) ==
    /\ pc = "idle"
    /\ LET o == SetDomainStatusCall(tables, d, active_checks)
       IN  /\ Committed(o.tables)
           /\ cmd' = [NoCmd EXCEPT !.name = "status", !.domain = d,
                                   !.exit = IF o.how = "returned" THEN 0 ELSE 1]
           /\ prg' = [NoPrg EXCEPT !.status = o.how, !.domain = d, !.pre = tables]
    /\ pc' = "exited"
    /\ UNCHANGED <<state_auto, changed_auto, now, app, run, chk, events, purged>>

\* --purge DOMAIN: lines 1185-1186, 839-890.
MainPurge(d) ==
    /\ pc = "idle"
    /\ LET o == PurgeDomainCall(tables, d)
       IN  /\ Committed(o.tables)
           /\ cmd' = [NoCmd EXCEPT !.name = "purge", !.domain = d,
                                   !.exit = IF o.how = "returned" THEN 0 ELSE 1]
           /\ prg' = [NoPrg EXCEPT !.status = o.how, !.domain = d, !.pre = tables]
           /\ purged' = IF o.how = "returned" THEN purged \cup {d} ELSE purged
    /\ pc' = "exited"
    /\ UNCHANGED <<state_auto, changed_auto, now, app, run, chk, events>>

\* The process is gone; the next command line starts a new one.  A purged
\* domain that is in the store again is no longer told from any other.
ProcessEnd ==
    /\ pc = "exited"
    /\ pc' = "idle"
    /\ app' = NoApp
    /\ cmd' = NoCmd
    /\ run' = NoRun
    /\ chk' = NoChk
    /\ prg' = NoPrg
    /\ events' = <<>>
    /\ purged' = {d \in purged : ~HaveDomain(committed.domain, d)}
    /\ UNCHANGED <<committed, domain, state, changed, state_auto, changed_auto, now>>

\* A second passes.
Tick ==
    /\ now < MaxTime
    /\ pc \in {"idle", "cd_whois"}
    /\ now' = now + 1
    /\ UNCHANGED <<committed, domain, state, changed, state_auto, changed_auto,
                   pc, app, cmd, run, chk, prg, events, purged>>

Next ==
    \/ \E d \in DomainNames, dns_behavior \in SpecDNSBehavior,
          max_retries \in 0..MaxRetries, dns \in SpecDnsOutcomes :
          MainCheckDomain(d, NULL, dns_behavior, max_retries, dns)
    \/ \E d \in DomainNames, text \in RawTexts, dns_behavior \in SpecDNSBehavior,
          dns \in SpecDnsOutcomes :
          MainCheckDomain(d, Val(text), dns_behavior, MaxRetries, dns)
    \/ \E dns_behavior \in SpecDNSBehavior, max_retries \in 0..MaxRetries :
          MainCheckAll(dns_behavior, max_retries)
    \/ \E d \in DomainNames, active_checks \in BOOLEAN :
          MainSetDomainStatus(d, active_checks)
    \/ \E d \in DomainNames : MainPurge(d)
    \/ \E text \in RawTexts, dns \in SpecDnsOutcomes : WhoisLookup(text, dns)
    \/ \E dns \in SpecDnsOutcomes : AllNextDomain(dns)
    \/ AllReturn
    \/ ProcessEnd
    \/ Tick

Spec == Init /\ [][Next]_vars

\* The same with a process that keeps running: the loop of
\* check_all_domains takes its next pass or returns, and a whois lookup that
\* was started is answered (time.sleep and the lookup come back).
SpecLive ==
    /\ Init /\ [][Next]_vars
    /\ WF_vars(\E dns \in SpecDnsOutcomes : AllNextDomain(dns))
    /\ WF_vars(\E text \in RawTexts, dns \in SpecDnsOutcomes : WhoisLookup(text, dns))
    /\ WF_vars(AllReturn)

\* The same process with --dns as well, and a resolver that may have no
\* record at all for the name or fail.
NextDns ==
    \/ \E d \in DomainNames, dns_behavior \in DNSBehavior,
          max_retries \in 0..MaxRetries, dns \in DnsOutcomes :
          MainCheckDomain(d, NULL, dns_behavior, max_retries, dns)
    \/ \E d \in DomainNames, text \in RawTexts, dns_behavior \in DNSBehavior,
          dns \in DnsOutcomes :
          MainCheckDomain(d, Val(text), dns_behavior, MaxRetries, dns)
    \/ \E dns_behavior \in DNSBehavior, max_retries \in 0..MaxRetries :
          MainCheckAll(dns_behavior, max_retries)
    \/ \E d \in DomainNames, active_checks \in BOOLEAN :
          MainSetDomainStatus(d, active_checks)
    \/ \E d \in DomainNames : MainPurge(d)
    \/ \E text \in RawTexts, dns \in DnsOutcomes : WhoisLookup(text, dns)
    \/ \E dns \in DnsOutcomes : AllNextDomain(dns)
    \/ AllReturn
    \/ ProcessEnd
    \/ Tick

SpecDns == Init /\ [][NextDns]_vars

(***************************************************************************)
(* _store_state and purge_domain statement by statement.  Every execute()  *)
(* changes the tables as the connection sees them; what another connection *)
(* reads changes at commit() only, and a process that ends before its      *)
(* commit() has its transaction rolled back by the store.                  *)
(***************************************************************************)

\* A slip: the connection is opened with autocommit on.
AutoCommitOn == TRUE

\* MySQLdb.connect (lines 177-185) leaves autocommit off.
AutoCommit == FALSE

\* self.cur.execute(...) has made the tables t.
Executed(t) ==
    /\ domain' = t.domain
    /\ state' = t.state
    /\ changed' = t.changed
    /\ committed' = IF AutoCommit THEN t ELSE committed

\* The process ends with a transaction open: the store rolls it back.
RolledBack ==
    /\ domain' = committed.domain
    /\ state' = committed.state
    /\ changed' = committed.changed
    /\ committed' = committed

\* Where a process is between the first statement of a transaction and its
\* commit.
StorePcs == {"ss_update", "ss_insert", "ss_pointer", "ss_changed", "ss_commit"}

PurgePcs == {"pg_changed", "pg_detach", "pg_states", "pg_domain", "pg_commit"}

\* check_domain up to the call of _store_state (lines 459-517), and the
\* selects of _store_state (lines 672-699).  `call` is what lines 459-486
\* gave, injected the parsed_data after the DNS lookups.
TxBeginStore(call, injected) ==
    /\ injected.st = "ok"
    /\ Committed(call.tables)
    /\ chk' = [call.frame EXCEPT
                 !.parsed_data = injected.v,
                 !.store_state = StoreState(PrevState(call.tables, call.frame.domain),
                                            injected.v),
                 !.differences = DifferencesOf(PrevState(call.tables, call.frame.domain),
                                               injected.v),
                 !.at_store = TRUE,
                 !.stored_at = Val(now)]
    /\ pc' = "ss_update"

\* -d DOMAIN -f FILE [--no-dns]: check_domain with an answer that is not the
\* communication error.
TxCheckDomain(d, text, dns_behavior, dns) ==
    /\ pc = "idle"
    /\ state_auto <= MaxStateId
    /\ ~SocketNotResponding(text)
    /\ app' = NewApp(dns_behavior, MaxRetries)
    /\ cmd' = [NoCmd EXCEPT !.name = "domain", !.domain = d]
    /\ TxBeginStore(CheckDomainCall(tables, app', d, Val(text)),
                    InjectedOf[d, text, DoDns(dns_behavior, HaveDomain(domain, d),
                                              IF HaveDomain(domain, d)
                                              THEN DomainRow(domain, d)
                                              ELSE NewDomainRow(d, 0)), dns])
    /\ UNCHANGED <<state_auto, changed_auto, now, run, prg, events, purged>>

\* Lines 701-706.
TxStoreUpdate ==
    /\ pc = "ss_update"
    /\ Executed(StoreUpdate(tables, chk.domain, chk.check_data, now, chk.do_dns))
    /\ pc' = IF chk.store_state THEN "ss_insert" ELSE "ss_commit"
    /\ UNCHANGED <<state_auto, changed_auto, now, app, cmd, run, chk, prg, events,
                   purged>>

\* Lines 709-751: the insert into state, which the unique index may refuse.
TxStoreInsert ==
    /\ pc = "ss_insert"
    /\ state_auto' = state_auto + 1
    /\ IF StoreInsertOk(tables, chk.domain, now)
       THEN /\ Executed([tables EXCEPT !.state =
                           @ \cup {NewStateRow(state_auto, chk.domain, now,
                                               chk.check_data[1], chk.parsed_data)}])
            /\ chk' = [chk EXCEPT !.new_state_id = Val(state_auto)]
            /\ cmd' = cmd
            /\ pc' = "ss_pointer"
       ELSE /\ RolledBack
            /\ chk' = [chk EXCEPT !.status = "raised"]
            /\ cmd' = [cmd EXCEPT !.exit = 1]
            /\ pc' = "exited"
    /\ UNCHANGED <<changed_auto, now, app, run, prg, events, purged>>

\* Lines 753-758.
TxStorePointer ==
    /\ pc = "ss_pointer"
    /\ Executed([tables EXCEPT !.domain =
                   UpdateDomain(@, chk.domain, "last_state", chk.new_state_id)])
    /\ pc' = "ss_changed"
    /\ UNCHANGED <<state_auto, changed_auto, now, app, cmd, run, chk, prg, events,
                   purged>>

\* The changed rows of the new state that are inserted so far.
ChangedSoFar == Cardinality({c \in changed : Val(c.state) = chk.new_state_id})

\* Lines 760-765: one pass of the loop over differences, or its end.
TxStoreChanged ==
    /\ pc = "ss_changed"
    /\ IF ChangedSoFar < Len(chk.differences)
       THEN /\ Executed([tables EXCEPT !.changed =
                           @ \cup {r \in ChangedRows(chk.differences,
                                                      chk.new_state_id[1],
                                                      changed_auto - ChangedSoFar) :
                                     r.id = changed_auto}])
            /\ changed_auto' = changed_auto + 1
            /\ pc' = "ss_changed"
       ELSE /\ UNCHANGED <<committed, domain, state, changed, changed_auto>>
            /\ pc' = "ss_commit"
    /\ UNCHANGED <<state_auto, now, app, cmd, run, chk, prg, events, purged>>

\* Lines 767-778, 1178: self.db.commit(), and the return.
TxStoreCommit ==
    /\ pc = "ss_commit"
    /\ Committed(tables)
    /\ chk' = [chk EXCEPT !.status = "returned", !.ret = chk.store_state]
    /\ cmd' = [cmd EXCEPT !.exit = IF chk.store_state THEN 2 ELSE 0]
    /\ pc' = "exited"
    /\ UNCHANGED <<state_auto, changed_auto, now, app, run, prg, events, purged>>

\* --purge DOMAIN for a domain the store knows: lines 846-855.
TxPurge(d) ==
    /\ pc = "idle"
    /\ HaveDomain(domain, d)
    /\ cmd' = [NoCmd EXCEPT !.name = "purge", !.domain = d]
    /\ prg' = [NoPrg EXCEPT !.status = "running", !.domain = d, !.pre = tables]
    /\ pc' = "pg_changed"
    /\ UNCHANGED <<committed, domain, state, changed, state_auto, changed_auto,
                   now, app, run, chk, events, purged>>

\* Lines 857-862.
TxPurgeChanged ==
    /\ pc = "pg_changed"
    /\ Executed(PurgeChanged(tables, GetStateIds(prg.pre, prg.domain)))
    /\ pc' = "pg_detach"
    /\ UNCHANGED <<state_auto, changed_auto, now, app, cmd, run, chk, prg, events,
                   purged>>

\* Lines 864-870.
TxPurgeDetach ==
    /\ pc = "pg_detach"
    /\ Executed(PurgeDetach(tables, prg.domain))
    /\ pc' = "pg_states"
    /\ UNCHANGED <<state_auto, changed_auto, now, app, cmd, run, chk, prg, events,
                   purged>>

\* Lines 872-877.
TxPurgeStates ==
    /\ pc = "pg_states"
    /\ PurgeStatesOk(tables, GetStateIds(prg.pre, prg.domain))
    /\ Executed(PurgeStates(tables, GetStateIds(prg.pre, prg.domain)))
    /\ pc' = "pg_domain"
    /\ UNCHANGED <<state_auto, changed_auto, now, app, cmd, run, chk, prg, events,
                   purged>>

\* Lines 879-883.
TxPurgeDomainRow ==
    /\ pc = "pg_domain"
    /\ PurgeDomainOk(tables, prg.domain)
    /\ Executed(PurgeDomainRow(tables, prg.domain))
    /\ pc' = "pg_commit"
    /\ UNCHANGED <<state_auto, changed_auto, now, app, cmd, run, chk, prg, events,
                   purged>>

\* Lines 885-890.
TxPurgeCommit ==
    /\ pc = "pg_commit"
    /\ Committed(tables)
    /\ prg' = [prg EXCEPT !.status = "returned"]
    /\ purged' = purged \cup {prg.domain}
    /\ pc' = "exited"
    /\ UNCHANGED <<state_auto, changed_auto, now, app, cmd, run, chk, events>>

\* The process ends between two statements of a transaction, or before its
\* commit (it is killed, the connection is lost, a statement raises).
TxFail ==
    /\ pc \in StorePcs \cup PurgePcs
    /\ RolledBack
    /\ chk' = IF pc \in StorePcs THEN [chk EXCEPT !.status = "raised"] ELSE chk
    /\ prg' = IF pc \in PurgePcs THEN [prg EXCEPT !.status = "raised"] ELSE prg
    /\ cmd' = [cmd EXCEPT !.exit = 1]
    /\ pc' = "exited"
    /\ UNCHANGED <<state_auto, changed_auto, now, app, run, events, purged>>

NextTx ==
    \/ \E d \in DomainNames, text \in RawTexts, dns_behavior \in SpecDNSBehavior,
          dns \in SpecDnsOutcomes :
          TxCheckDomain(d, text, dns_behavior, dns)
    \/ TxStoreUpdate
    \/ TxStoreInsert
    \/ TxStorePointer
    \/ TxStoreChanged
    \/ TxStoreCommit
    \/ \E d \in DomainNames : TxPurge(d)
    \/ TxPurgeChanged
    \/ TxPurgeDetach
    \/ TxPurgeStates
    \/ TxPurgeDomainRow
    \/ TxPurgeCommit
    \/ TxFail
    \/ ProcessEnd
    \/ Tick

SpecTx == Init /\ [][NextTx]_vars

(***************************************************************************)
(* _clean_parsed_data on its own: two values of one key of a whois entry   *)
(* are drawn, and the clean-up is applied to the entry with each.          *)
(***************************************************************************)

\* The keys whose values are lists.
ListKeys == {"name_servers", "status", "emails"}

\* The entries the lists of a key are made of.
ListEntries(key) ==
    CASE key = "name_servers" ->
           { <<"n", "s", "1", ".", "x">>, <<"N", "S", "1", ".", "X">>,
             <<"n", "s", "2", ".", "x">>, <<"n", "s", "1", "0", ".", "x">> }
      [] key = "status" ->
           { <<"o", "k">>, <<"h", "o", "l", "d">>,
             <<"o", "k", " ", "h", "t", "t", "p", ":", "/", "/", "i", ".", "c">>,
             <<"o", "k", " ", "(", "h", "t", "t", "p", ":", "/", "/", "i", ".", "c", ")">> }
      [] key = "emails" ->
           { <<"a", "@", "x">>, <<"b", "@", "x">>, <<"B", "@", "x">>,
             <<"a", "@", "x", ".", "y">> }

\* The lists of up to MaxLen entries of a key, as python-whois gives them.
ListValues(key) ==
    { PyList([i \in 1..Len(f) |-> PyStr(f[i])]) :
        f \in UNION {[1..n -> ListEntries(key)] : n \in 0..MaxLen} }

\* _clean_parsed_data on an entry whose `key` is `value`: how it ends, and
\* parsed_data[key] when it completes.
Cleaned(key, value) ==
    LET o == CleanParsedData([EntryA EXCEPT ![key] = value])
    IN  IF o.st = "ok" THEN Ok(o.v[key]) ELSE o

NoNorm == [key |-> "none", a |-> PyNone, b |-> PyNone, done |-> FALSE,
           out_a |-> Ok(PyNone), out_b |-> Ok(PyNone)]

InitNorm ==
    /\ committed = NoTables
    /\ domain = {}
    /\ state = {}
    /\ changed = {}
    /\ state_auto = 1
    /\ changed_auto = 1
    /\ now = 0
    /\ pc = "clean"
    /\ app = NoApp
    /\ cmd = NoCmd
    /\ run = NoRun
    /\ \E key \in ListKeys : \E a \in ListValues(key) : \E b \in ListValues(key) :
           chk = [NoNorm EXCEPT !.key = key, !.a = a, !.b = b]
    /\ prg = NoPrg
    /\ events = <<>>
    /\ purged = {}

\* _clean_parsed_data(domain, parsed_data), for each of the two values.
CleanBoth ==
    /\ pc = "clean"
    /\ ~chk.done
    /\ chk' = [chk EXCEPT !.done = TRUE,
                           !.out_a = Cleaned(chk.key, chk.a),
                           !.out_b = Cleaned(chk.key, chk.b)]
    /\ pc' = "cleaned"
    /\ UNCHANGED <<committed, domain, state, changed, state_auto, changed_auto,
                   now, app, cmd, run, prg, events, purged>>

NextNorm == CleanBoth

SpecNorm == InitNorm /\ [][NextNorm]_vars

(***************************************************************************)
(* _clean_parsed_data on its own, over the shapes python-whois gives a     *)
(* value: None, one value, a list of values.                               *)
(***************************************************************************)

\* the lists of this specification have up to MaxShapeLen entries
MaxShapeLen == 2

\* The date values the lists are made of: a naive datetime with
\* microseconds, two aware datetimes that are the same instant (23:30 UTC
\* of 2019-12-31) at the offsets +01:00 and -01:00, a str in the format of
\* date_t_re, and what is no date: None, a str in another format, a str in
\* the format whose month is 13.
DateEntries ==
    { PyDatetime(<<2020, 1, 1, 0, 0, 0>>, 5, Naive),
      PyDatetime(<<2020, 1, 1, 0, 30, 0>>, 0, <<60>>),
      PyDatetime(<<2019, 12, 31, 22, 30, 0>>, 0, <<0 - 60>>),
      PyStr(<<"2", "0", "1", "9", "-", "1", "2", "-", "3", "1", "T",
              "2", "3", ":", "4", "5", ":", "0", "0">>),
      PyNone,
      PyStr(<<"n", "/", "a">>),
      PyStr(<<"2", "0", "1", "9", "-", "1", "3", "-", "0", "1", "T",
              "0", "0", ":", "0", "0", ":", "0", "0">>) }

\* The values of a key: None, one entry, a list of up to MaxShapeLen
\* entries.
ShapeValues(key) ==
    LET entries == IF key \in ListKeys
                   THEN {PyStr(e) : e \in ListEntries(key)} \cup {PyNone}
                   ELSE DateEntries
    IN  entries \cup
        { PyList(f) : f \in UNION {[1..n -> entries \ {PyNone}] : n \in 0..MaxShapeLen} }

InitShape ==
    /\ committed = NoTables
    /\ domain = {}
    /\ state = {}
    /\ changed = {}
    /\ state_auto = 1
    /\ changed_auto = 1
    /\ now = 0
    /\ pc = "clean"
    /\ app = NoApp
    /\ cmd = NoCmd
    /\ run = NoRun
    /\ \E key \in ListKeys \cup {"updated_date", "creation_date", "expiration_date"} :
           \E a \in ShapeValues(key) : \E b \in ShapeValues(key) :
               chk = [NoNorm EXCEPT !.key = key, !.a = a, !.b = b]
    /\ prg = NoPrg
    /\ events = <<>>
    /\ purged = {}

SpecShape == InitShape /\ [][NextNorm]_vars

TypeOK ==
    /\ pc \in {"idle", "exited", "ca_loop", "cd_whois"}
    /\ now \in 0..MaxTime
    /\ state_auto \in 1..(MaxStateId + 1)
    /\ tables = committed

(***************************************************************************)
(* What the properties observe                                             *)
(***************************************************************************)

\* The latest check_domain call is over.
Ended == chk.status \in {"returned", "raised", "exited"}

\* It got as far as _store_state.
AtStore == Ended /\ chk.at_store

\* The domain's current State when the call was made, NULL when none.
Prev == PrevState(chk.pre, chk.domain)

\* The domain's row now, and when the call was made.
Row == DomainRow(committed.domain, chk.domain)

PreRow == DomainRow(chk.pre.domain, chk.domain)

\* The tracked fields in which the canonical record differs from Prev.
Differing == {k \in Range(datapoints) : Prev[1][k] # chk.parsed_data[k]}

\* The rows the call added.
NewStates == committed.state \ chk.pre.state

NewChanged == committed.changed \ chk.pre.changed

\* Every whois answer of the call was the communication error.
AllTransient == \A i \in 1..Len(chk.lookups) : chk.lookups[i] = SocketText

\* The events e of the process that are of the kinds in `kinds`.
EventsOf(kinds) == SelectSeq(events, LAMBDA e : e.e \in kinds)

\* The lookups and retry pauses of the latest call's domain.
LoopEvents ==
    SelectSeq(events, LAMBDA e : e.d = chk.domain
                                  /\ e.e \in {"whois_lookup", "retry_sleep"})

\* The domains check_all_domains has called check_domain for, in order.
CheckedDomains ==
    [i \in 1..Len(EventsOf({"check_domain"})) |-> EventsOf({"check_domain"})[i].d]

\* The domains whose active_checks flag is set.
ActiveNow == {r.domain : r \in {q \in committed.domain : q.active_checks = 1}}

\* The latest check made DNS queries.
Queried ==
    \E i \in 1..Len(events) : events[i].e = "dns_query" /\ events[i].d = chk.domain

\* The latest check was of a domain that had no row.
BrandNew == ~HaveDomain(chk.pre.domain, chk.domain)

\* ip and mx of the latest check's canonical record are the placeholder.
Placeholders ==
    /\ chk.parsed_data["ip"] = PyStr(LookupsDisabled)
    /\ chk.parsed_data["mx"] = PyStr(LookupsDisabled)

\* The latest check ran under --dns or --no-dns.
Forced == app.dns_behavior \in {"FORCE_YES", "FORCE_NO"}

\* The do_dns flag an option forces.
ForcedFlag == IF app.dns_behavior = "FORCE_YES" THEN 1 ELSE 0

\* The do_dns flag of d, NULL when d has no row.
DoDnsOf(t, d) ==
    IF HaveDomain(t.domain, d) THEN Val(DomainRow(t.domain, d).do_dns) ELSE NULL

\* ip and mx of the domain's current State, when the call was made, are the
\* placeholder.
PrevPlaceholders ==
    /\ Prev[1]["ip"] = PyStr(LookupsDisabled)
    /\ Prev[1]["mx"] = PyStr(LookupsDisabled)

\* The changed rows the call added for ip and mx.
NewChangedDns == {c \in NewChanged : c.info \in {Label("ip"), Label("mx")}}

\* The latest check ended in an exception of the resolver: it raised after
\* its DNS queries and before _store_state.
DnsFailed == chk.status = "raised" /\ ~chk.at_store /\ Queried

\* The three date keys of parsed_data.
DateKeys == {"updated_date", "creation_date", "expiration_date"}

\* A date value the clean-up takes: a datetime, or a str in the format of
\* date_t_re.
WellFormedDate(v) ==
    \/ v.k = "datetime"
    \/ v.k = "str" /\ date_t_re(v.s) # <<>>

\* Some date of the entry, alone or in a list, is not such a value.
MalformedDateIn(entry) ==
    \E key \in DateKeys :
        LET dates == IF entry[key].k = "list" THEN entry[key].l ELSE <<entry[key]>>
        IN  \E i \in 1..Len(dates) : ~WellFormedDate(dates[i])

\* The latest check got a whois answer that is not the communication error.
Answered == chk.check_data # NULL /\ ~SocketNotResponding(chk.check_data[1])

\* Date values that are neither: None, text in other formats, and a list
\* that holds one of them after a good date.
MalformedDates ==
    { PyNone,
      PyStr(<<>>),
      PyStr(<<"n", "/", "a">>),
      PyStr(<<"2", "0", "3", "0", "-", "0", "1", "-", "0", "2", " ",
              "0", "3", ":", "0", "4", ":", "0", "5">>),
      PyStr(<<"2", "0", "3", "0", "-", "0", "1", "-", "0", "2",
              "T", "0", "3", ":", "0", "4", ":", "0", "5", "Z">>),
      PyList(<<PyDatetime(<<2010, 1, 2, 3, 4, 5>>, 0, Naive),
               PyStr(<<"0", "2", "/", "0", "1", "/", "2", "0", "3", "0">>)>>) }

\* s.split(', ')
RECURSIVE Split(_)
Split(s) ==
    IF \E i \in 1..(Len(s) - 1) : SubSeq(s, i, i + 1) = CommaSpace
    THEN LET i == CHOOSE i \in 1..(Len(s) - 1) :
                      /\ SubSeq(s, i, i + 1) = CommaSpace
                      /\ \A j \in 1..(i - 1) : SubSeq(s, j, j + 1) # CommaSpace
         IN  <<SubSeq(s, 1, i - 1)>> \o Split(SubSeq(s, i + 2, Len(s)))
    ELSE <<s>>

\* The entries of a list value, lower-cased, as a set.
LoweredEntries(value) == {Lower(value.l[i].s) : i \in 1..Len(value.l)}

\* Two list values hold the same entries, each as many times: one is the
\* other in another order.
SameEntries(a, b) ==
    \A x \in Range(a.l) \cup Range(b.l) :
        Cardinality({i \in 1..Len(a.l) : a.l[i] = x})
          = Cardinality({i \in 1..Len(b.l) : b.l[i] = x})

\* The domain row of d, its states and the changed rows of its states in t.
RowsOf(t, d) ==
    [domain |-> {r \in t.domain : r.domain = d},
     state |-> {r \in t.state : r.domain = d},
     changed |-> {c \in t.changed :
                    \E r \in t.state : r.domain = d /\ r.id = c.state}]

\* No row of t names a row that is not there: the state of a changed row,
\* the last_state of a domain, the domain of a state.
References(t) ==
    /\ \A c \in t.changed : \E r \in t.state : r.id = c.state
    /\ \A r \in t.domain :
           r.last_state # NULL => \E st \in t.state : st.id = r.last_state[1]
    /\ \A st \in t.state : HaveDomain(t.domain, st.domain)

\* The entries of a value: those of a list, the value itself otherwise.
EntriesOf(value) == IF value.k = "list" THEN value.l ELSE <<value>>

\* A date value the clean-up takes whose fields are a date of the calendar.
GoodDate(v) ==
    /\ WellFormedDate(v)
    /\ v.k = "str" => ValidFields(date_t_re(v.s))

\* The civil fields a good date value is written with.
CivilFields(v) == IF v.k = "str" THEN date_t_re(v.s) ELSE v.f

\* The civil fields of the day before / after the day of f, at minute m of
\* the day.
DayBefore(f, m) ==
    IF f[3] > 1 THEN <<f[1], f[2], f[3] - 1, m \div 60, m % 60, f[6]>>
    ELSE IF f[2] > 1
    THEN <<f[1], f[2] - 1, DaysInMonth(f[1], f[2] - 1), m \div 60, m % 60, f[6]>>
    ELSE <<f[1] - 1, 12, 31, m \div 60, m % 60, f[6]>>

DayAfter(f, m) ==
    IF f[3] < DaysInMonth(f[1], f[2])
    THEN <<f[1], f[2], f[3] + 1, m \div 60, m % 60, f[6]>>
    ELSE IF f[2] < 12 THEN <<f[1], f[2] + 1, 1, m \div 60, m % 60, f[6]>>
    ELSE <<f[1] + 1, 1, 1, m \div 60, m % 60, f[6]>>

\* The UTC civil fields of the instant that is written f at an offset of k
\* minutes (less than a day) from UTC.
UtcFields(f, k) ==
    LET m == f[4] * 60 + f[5] - k
    IN  IF m < 0 THEN DayBefore(f, m + 1440)
        ELSE IF m >= 1440 THEN DayAfter(f, m - 1440)
        ELSE <<f[1], f[2], f[3], m \div 60, m % 60, f[6]>>

\* The UTC civil fields of a good date value: those of its instant when it
\* is aware, its own when it is naive or a str.
InstantOf(v) ==
    IF v.k = "datetime" /\ v.tz # Naive THEN UtcFields(v.f, v.tz[1])
    ELSE CivilFields(v)

\* u is a URL as status_url_re sees it: http and more, without a blank.
IsUrl(u) ==
    /\ Len(u) > Len(Http)
    /\ SubSeq(u, 1, Len(Http)) = Http
    /\ \A i \in 1..Len(u) : u[i] # " "

\* t is p followed by " URL" or by " (URL)".
UrlAfter(t, p) ==
    /\ p <= Len(t) - 2
    /\ t[p + 1] = " "
    /\ \/ IsUrl(SubSeq(t, p + 2, Len(t)))
       \/ /\ t[p + 2] = "(" /\ t[Len(t)] = ")"
          /\ IsUrl(SubSeq(t, p + 3, Len(t) - 1))

\* A status token without its trailing URL.
WithoutUrl(t) ==
    IF \E p \in 0..Len(t) : UrlAfter(t, p)
    THEN SubSeq(t, 1, CHOOSE p \in 0..Len(t) : UrlAfter(t, p))
    ELSE t

\* The tokens of a str the clean-up joined: none for the empty str.
Tokens(v) == IF v.s = <<>> THEN <<>> ELSE Split(v.s)

\* The states of the domain of s that were inserted before s.
StatesBefore(t, s) == {p \in t.state : p.domain = s.domain /\ p.id < s.id}

\* The one inserted last of them.
StateBefore(t, s) ==
    CHOOSE p \in StatesBefore(t, s) : \A q \in StatesBefore(t, s) : q.id <= p.id

\* The changed rows of state s, without their ids.
ChangedOf(t, s) ==
    {[info |-> c.info, val_from |-> c.val_from, val_to |-> c.val_to] :
        c \in {x \in t.changed : x.state = s.id}}

\* The changed rows state s is to have: one for every tracked field in which
\* it differs from the domain's state before it, none for a first state.
ChangedDue(t, s) ==
    IF StatesBefore(t, s) = {} THEN {}
    ELSE {[info |-> Label(k),
           val_from |-> VarcharValue(StateBefore(t, s)[k]),
           val_to |-> VarcharValue(s[k])] :
            k \in {x \in Range(datapoints) : StateBefore(t, s)[x] # s[x]}}

\* The tracked fields that come from the whois answer.
WhoisKeys == Range(datapoints) \ {"ip", "mx"}

\* What a connection reads in t is whole: every state has its changed rows
\* and its domain row; a last_state names a state of the domain; a domain
\* that has been checked has a last_state, which is what its cur_raw_text
\* parses to and is no younger than last_checked; a domain without
\* last_state has no state.
Whole(t) ==
    /\ \A c \in t.changed : \E st \in t.state : st.id = c.state
    /\ \A st \in t.state :
           /\ ChangedOf(t, st) = ChangedDue(t, st)
           /\ HaveDomain(t.domain, st.domain)
    /\ \A r \in t.domain :
           /\ r.last_state # NULL =>
                  \E st \in t.state : st.id = r.last_state[1] /\ st.domain = r.domain
           /\ r.last_state = NULL => ~\E st \in t.state : st.domain = r.domain
           /\ (r.cur_raw_text # NULL \/ r.last_checked # NULL) =>
                  /\ r.cur_raw_text # NULL /\ r.last_checked # NULL
                  /\ r.last_state # NULL
                  /\ \A st \in t.state :
                         st.id = r.last_state[1] =>
                             /\ st.check_time <= r.last_checked[1]
                             /\ \A k \in WhoisKeys :
                                    st[k] = ParsedDataOf[r.domain, r.cur_raw_text[1]].v[k]

\* The last_state of d, NULL also when d has no row.
LastStateOf(t, d) ==
    IF HaveDomain(t.domain, d) THEN DomainRow(t.domain, d).last_state ELSE NULL

(***************************************************************************)
(* Properties                                                              *)
(***************************************************************************)

\* C1: a check of a domain that has a current State, whose canonical record
\* equals that State in all eighteen tracked fields, returns false, adds no
\* state row and no changed row, leaves last_state as it was, and sets
\* cur_raw_text to the new raw text and last_checked to the time of the check.
C1_NoChangeCheck ==
    (AtStore /\ Prev # NULL /\ Differing = {}) =>
        /\ chk.status = "returned"
        /\ chk.ret = FALSE
        /\ committed.state = chk.pre.state
        /\ committed.changed = chk.pre.changed
        /\ Row.last_state = PreRow.last_state
        /\ Row.cur_raw_text = chk.check_data
        /\ Row.last_checked = Val(now)

\* C1 happens: an unchanged registration is seen again, in another layout and
\* a second later.
C1_Witness ==
    /\ AtStore /\ Prev # NULL /\ Differing = {}
    /\ chk.status = "returned"
    /\ PreRow.cur_raw_text # chk.check_data
    /\ PreRow.last_checked # Val(now)

\* C2: a check of a domain with no current State (no row, or a row whose
\* last_state is null) that reaches _store_state returns true, adds exactly
\* one state row, of that domain, makes it the domain's last_state, and adds
\* no changed row.
C2_InitialObservation ==
    (AtStore /\ Prev = NULL) =>
        /\ chk.status = "returned"
        /\ chk.ret = TRUE
        /\ chk.pre.state \subseteq committed.state
        /\ Cardinality(NewStates) = 1
        /\ \A r \in NewStates : r.domain = chk.domain /\ Row.last_state = Val(r.id)
        /\ committed.changed = chk.pre.changed

\* C2 happens: the first state of a domain whose row an earlier check left
\* without one.
C2_Witness ==
    /\ AtStore /\ Prev = NULL
    /\ HaveDomain(chk.pre.domain, chk.domain)
    /\ NewStates # {}

\* C3: a check of a domain with a current State P that produces the canonical
\* record C returns, and returns true exactly when some tracked field differs;
\* then the changed rows of the one new state are one row per differing field,
\* under the field's label, with P's value as val_from and C's as val_to.
C3_ChangeDetection ==
    (AtStore /\ Prev # NULL) =>
        /\ chk.status = "returned"
        /\ chk.ret = (Differing # {})
        /\ (Differing # {}) =>
            /\ Cardinality(NewStates) = 1
            /\ \A r \in NewStates :
                /\ \A c \in NewChanged : c.state = r.id
                /\ {[info |-> c.info, val_from |-> c.val_from, val_to |-> c.val_to] :
                       c \in NewChanged}
                   = {[info |-> Label(k),
                       val_from |-> VarcharValue(Prev[1][k]),
                       val_to |-> VarcharValue(chk.parsed_data[k])] : k \in Differing}
                /\ Cardinality(NewChanged) = Cardinality(Differing)

\* C3, for the checks whose insert into state the store accepts: what C3
\* says holds of every check that does not find (domain, check_time) taken.
C3_ChangeDetectionWhenAccepted ==
    (AtStore /\ Prev # NULL /\ chk.status # "raised") => C3_ChangeDetection

\* C3's case happens: a change of registrar only is stored.
C3_Witness ==
    /\ AtStore /\ Prev # NULL
    /\ chk.status = "returned"
    /\ Differing = {"registrar"}
    /\ Cardinality(NewChanged) = 1

\* C4: two states of one domain that are consecutive in check_time order
\* differ in at least one of the eighteen tracked fields.
C4_ConsecutiveStatesDiffer ==
    \A s1 \in committed.state : \A s2 \in committed.state :
        ( /\ s1.domain = s2.domain
          /\ s1.check_time < s2.check_time
          /\ ~\E s3 \in committed.state :
                 /\ s3.domain = s1.domain
                 /\ s1.check_time < s3.check_time
                 /\ s3.check_time < s2.check_time )
        => \E k \in Range(datapoints) : s1[k] # s2[k]

\* C4's case happens: a check has stored a second state of a domain, a second
\* after the first.
C4_Witness ==
    /\ AtStore /\ chk.status = "returned" /\ chk.ret
    /\ \E s1 \in chk.pre.state : \E s2 \in NewStates :
           s1.domain = s2.domain /\ s1.check_time < s2.check_time

\* C5: in every committed state of the store, a last_state that is not null
\* names a state row, every state row's domain has a domain row, and every
\* changed row's state names a state row.
C5_ReferentialIntegrity ==
    /\ \A r \in committed.domain :
           r.last_state # NULL => \E st \in committed.state : st.id = r.last_state[1]
    /\ \A st \in committed.state : HaveDomain(committed.domain, st.domain)
    /\ \A c \in committed.changed : \E st \in committed.state : st.id = c.state

\* C5's case happens: a domain with a state has been purged while another
\* domain keeps its own.
C5_Witness ==
    /\ cmd.name = "purge" /\ prg.status = "returned"
    /\ Cardinality(prg.pre.state) = 2
    /\ Cardinality(committed.state) = 1
    /\ \E r \in committed.domain : r.last_state # NULL

\* C6, at every moment: the last_state of a domain with state rows is the one
\* of them inserted last (the highest id), and that of a domain with none is
\* null.
C6_LastStateIsLatest ==
    \A r \in committed.domain :
        LET mine == {st \in committed.state : st.domain = r.domain}
        IN  IF mine = {} THEN r.last_state = NULL
            ELSE \E st \in mine : /\ r.last_state = Val(st.id)
                                  /\ \A o \in mine : o.id <= st.id

\* C6, in every step: a domain's last_state changes only when the step inserts
\* a state of that domain, which it then names, or purges the domain.
C6_LastStateMoves ==
    \A d \in DomainNames :
        LastStateOf(committed, d) # LastStateOf(committed', d) =>
            \/ \E st \in committed'.state \ committed.state :
                   /\ st.domain = d
                   /\ LastStateOf(committed', d) = Val(st.id)
                   /\ chk'.status = "returned" /\ chk'.domain = d
            \/ /\ cmd'.name = "purge" /\ cmd'.domain = d
               /\ LastStateOf(committed', d) = NULL

\* C6: last_state is the domain's most recently inserted state, or null for a
\* domain without states, and changes only in a check that inserts a state or
\* in a purge.
C6_LastState == []C6_LastStateIsLatest /\ [][C6_LastStateMoves]_vars

\* C6's case happens: a second state of a domain has become its last_state
\* while another domain has none.
C6_Witness ==
    /\ AtStore /\ Prev # NULL /\ chk.status = "returned" /\ chk.ret
    /\ Row.last_state = chk.new_state_id
    /\ Row.last_state # PreRow.last_state
    /\ \E r \in committed.domain : r.last_state = NULL

C8_RetryLoop ==
    (chk.live /\ app.max_retries >= 1 /\ chk.status # "none") =>
        LET n == Len(chk.lookups)
        IN  /\ n <= app.max_retries
            /\ \A i \in 1..(n - 1) : chk.lookups[i] = SocketText
            /\ \A i \in 1..Len(LoopEvents) :
                   IF i % 2 = 1
                   THEN LoopEvents[i] = Event("whois_lookup", chk.domain, (i + 1) \div 2)
                   ELSE LoopEvents[i] = Event("retry_sleep", chk.domain,
                                              app.delay_between_domains)
            /\ IF Ended
               THEN /\ n >= 1
                    /\ chk.lookups[n] = SocketText => n = app.max_retries
                    /\ Len(LoopEvents) = 2 * n - 1
               ELSE Len(LoopEvents) = 2 * n

\* C8's case happens: the first attempt fails, the loop pauses, and the second
\* attempt succeeds and ends the loop.
C8_Witness ==
    /\ Ended /\ chk.live /\ app.max_retries = 2
    /\ Len(chk.lookups) = 2
    /\ chk.lookups[2] # SocketText
    /\ Len(LoopEvents) = 3

\* C9 as stated, for the runs in which no check raises an exception: when
\* check_all_domains is over, it has checked exactly the active domains, each
\* once, in ascending order of name.
C9_ChecksEveryActiveDomain ==
    (cmd.name = "all" /\ pc = "exited" /\ chk.status # "raised") =>
        /\ \A i \in 1..Len(CheckedDomains) : \A j \in 1..Len(CheckedDomains) :
               i < j => StrLess(CheckedDomains[i], CheckedDomains[j])
        /\ Range(CheckedDomains) = ActiveNow

\* C9, amended: check_all_domains calls check_domain for active domains only,
\* in ascending order of name and never twice, skipping no active domain on
\* the way; a run that returns has checked every active domain, a run that a
\* check ends (exit(1) or an exception) has checked those up to the failing
\* one; each check is over before the next begins, and every whois lookup and
\* DNS query is made for the domain being checked.
C9_ChecksActiveDomainsInOrder ==
    cmd.name = "all" =>
        /\ \A i \in 1..Len(CheckedDomains) : \A j \in 1..Len(CheckedDomains) :
               i < j => StrLess(CheckedDomains[i], CheckedDomains[j])
        /\ Range(CheckedDomains) \subseteq ActiveNow
        /\ \A a \in ActiveNow : \A i \in 1..Len(CheckedDomains) :
               StrLess(a, CheckedDomains[i])
                   => \E j \in 1..(i - 1) : CheckedDomains[j] = a
        /\ run.status = "returned" => Range(CheckedDomains) = ActiveNow
        /\ \A i \in 1..Len(events) : \A j \in 1..Len(events) :
               (i < j /\ events[i].e = "check_domain" /\ events[j].e = "check_domain")
                   => \E m \in (i + 1)..(j - 1) :
                          events[m] = Event("returned", events[i].d, 0)
        /\ \A i \in 1..Len(events) :
               events[i].e \in {"whois_lookup", "dns_query"}
                   => \E j \in 1..(i - 1) :
                          /\ events[j] = Event("check_domain", events[i].d, 0)
                          /\ \A m \in (j + 1)..(i - 1) :
                                 events[m].e \notin {"check_domain", "returned"}

\* C9's case happens: a run over two active domains returns, having looked
\* both up.
C9_Witness ==
    /\ cmd.name = "all" /\ run.status = "returned"
    /\ Len(CheckedDomains) = 2
    /\ Len(EventsOf({"whois_lookup"})) >= 2

\* C10: in a check_all_domains run over n active domains that returns, there
\* are max(n - 1, 0) pauses between domains, of delay_between_domains seconds:
\* one before every check but the first, none after the last.
C10_InterDomainPauses ==
    (cmd.name = "all" /\ run.status = "returned") =>
        LET n == Cardinality(ActiveNow)
            marks == EventsOf({"check_domain", "domain_sleep"})
        IN  /\ Len(EventsOf({"domain_sleep"})) = IF n = 0 THEN 0 ELSE n - 1
            /\ Len(marks) = IF n = 0 THEN 0 ELSE 2 * n - 1
            /\ \A i \in 1..Len(marks) :
                   IF i % 2 = 1 THEN marks[i].e = "check_domain"
                   ELSE /\ marks[i].e = "domain_sleep"
                        /\ marks[i].n = app.delay_between_domains
                        /\ marks[i].d = marks[i + 1].d
            /\ \A i \in 1..Len(events) :
                   events[i].e = "domain_sleep" => events[i + 1].e = "check_domain"

\* C10's case happens: a run over two domains returns with one pause, the
\* first check having given up on the communication error and the second
\* having stored a state.
C10_Witness ==
    /\ cmd.name = "all" /\ run.status = "returned"
    /\ Cardinality(ActiveNow) = 2
    /\ Len(EventsOf({"domain_sleep"})) = 1
    /\ \E r \in committed.domain : r.domain # chk.domain /\ r.last_checked = NULL
    /\ AtStore /\ chk.ret

C12_PurgeCompleteness ==
    /\ (cmd.name = "purge" /\ prg.status = "returned") =>
           /\ ~HaveDomain(committed.domain, prg.domain)
           /\ ~\E st \in committed.state : st.domain = prg.domain
           /\ ~\E c \in committed.changed : \E st \in prg.pre.state :
                   st.domain = prg.domain /\ c.state = st.id
    /\ \A d \in purged :
           /\ pc = "idle" =>
                 /\ ~HaveDomain(committed.domain, d)
                 /\ ~\E st \in committed.state : st.domain = d
           /\ (chk.status # "none" /\ chk.domain = d) =>
                 /\ ~HaveDomain(chk.pre.domain, d)
                 /\ Row.active_checks = 1
                 /\ Row.do_dns = IF app.dns_behavior = "FORCE_NO" THEN 0 ELSE 1
                 /\ AtStore =>
                       /\ chk.status = "returned"
                       /\ chk.ret = TRUE
                       /\ NewStates = {st \in committed.state : st.domain = d}
                       /\ Cardinality(NewStates) = 1
                       /\ \A st \in NewStates : Row.last_state = Val(st.id)
                       /\ NewChanged = {}
                       /\ ~\E c \in committed.changed : \E st \in NewStates :
                               c.state = st.id

\* C12's case happens: a domain that was purged is checked again and its
\* state is stored, under the second id the store hands out.
C12_Witness ==
    /\ AtStore /\ chk.domain \in purged
    /\ chk.status = "returned"
    /\ chk.new_state_id = Val(2)
    /\ Cardinality(NewStates) = 1

\* C13: set_domain_status and purge_domain, called for a domain that has no
\* domain row, end the process by self.exit(1) after the warning, and leave
\* the three tables as they were.
C13_UnknownDomainAborts ==
    (prg.status # "none" /\ ~HaveDomain(prg.pre.domain, prg.domain)) =>
        /\ cmd.name \in {"status", "purge"}
        /\ prg.status = "exited"
        /\ cmd.exit = 1
        /\ committed = prg.pre
        /\ tables = prg.pre

\* C13's case happens: the flag of a domain that was purged is set, while
\* the store holds another domain's state.
C13_Witness ==
    /\ cmd.name = "status" /\ prg.status = "exited"
    /\ prg.domain \in purged
    /\ prg.pre.state # {}

\* C14: the do_dns of a check is true under --dns and false under --no-dns;
\* with neither it is the stored do_dns flag of a domain that has a row, and
\* true for a domain that has none.  It shows in what the check does: DNS
\* queries are made exactly when it is true, and ip and mx are the
\* placeholder exactly when it is false.  The row added for a domain that
\* had none has active_checks = 1, and do_dns = 1 unless the check runs
\* under --no-dns, which gives do_dns = 0.
C14_DnsPolicy ==
    LET expected ==
            IF app.dns_behavior = "FORCE_YES" THEN TRUE
            ELSE IF app.dns_behavior = "FORCE_NO" THEN FALSE
            ELSE IF BrandNew THEN TRUE
            ELSE PreRow.do_dns = 1
    IN  /\ chk.status # "none" => chk.do_dns = expected
        /\ (Ended /\ Queried) => expected
        /\ AtStore => /\ Queried = expected
                      /\ Placeholders = ~expected
        /\ (chk.status # "none" /\ BrandNew) =>
               /\ Row.active_checks = 1
               /\ Row.do_dns = IF app.dns_behavior = "FORCE_NO" THEN 0 ELSE 1

\* C14's case happens: a check with neither option, of a domain whose stored
\* flag is 0, gets to _store_state without a DNS query.
C14_Witness ==
    /\ AtStore /\ chk.status = "returned"
    /\ app.dns_behavior = "DOMAIN_DEFAULT"
    /\ ~BrandNew /\ PreRow.do_dns = 0
    /\ ~Queried /\ Placeholders

\* C15 as stated: after a check of a domain that had a row, run under --dns
\* (resp. --no-dns), that returned, the domain's stored do_dns flag is 1
\* (resp. 0).
C15_ForcedCheckReconfigures ==
    (chk.status = "returned" /\ ~BrandNew /\ Forced) => Row.do_dns = ForcedFlag

\* C15, amended, in every state: a check under --dns (resp. --no-dns) that
\* returns from _store_state leaves the stored flag at 1 (resp. 0); a check
\* of a domain that had a row which ends before that (the communication
\* error, exit(1), an exception) leaves the flag as it was, whatever the
\* option; a check under neither option never changes the flag.
C15_FlagAfterCheck ==
    /\ (AtStore /\ chk.status = "returned" /\ Forced) => Row.do_dns = ForcedFlag
    /\ (Ended /\ ~BrandNew /\ ~(AtStore /\ chk.status = "returned")) =>
           Row.do_dns = PreRow.do_dns
    /\ (chk.status # "none" /\ ~BrandNew /\ ~Forced) => Row.do_dns = PreRow.do_dns

\* C15, amended, in every step: the stored flag of a domain changes only in a
\* check of that domain under --dns or --no-dns that returns from
\* _store_state, and then to what the option says.
C15_FlagMoves ==
    \A d \in DomainNames :
        ( /\ DoDnsOf(committed, d) # NULL
          /\ DoDnsOf(committed', d) # NULL
          /\ DoDnsOf(committed, d) # DoDnsOf(committed', d) ) =>
            /\ chk'.domain = d
            /\ chk'.at_store /\ chk'.status = "returned"
            /\ app'.dns_behavior \in {"FORCE_YES", "FORCE_NO"}
            /\ DoDnsOf(committed', d)
                  = Val(IF app'.dns_behavior = "FORCE_YES" THEN 1 ELSE 0)

\* C15, amended: the stored flag is reconfigured by the forced checks that
\* get to record the check, and by nothing else, so that until the next such
\* check the checks under neither option keep the lookups on or off.
C15_ForcedCheckPersists == []C15_FlagAfterCheck /\ [][C15_FlagMoves]_vars

\* C15's case happens: a check under --dns of a domain whose stored flag was
\* 0 has returned from _store_state, and the flag is 1.
C15_Witness ==
    /\ AtStore /\ chk.status = "returned"
    /\ app.dns_behavior = "FORCE_YES"
    /\ ~BrandNew /\ PreRow.do_dns = 0
    /\ Row.do_dns = 1

\* C16, the values: whatever the resolver answers, no record at all
\* included, the ip and mx that _inject_dns_lookups gives are not the
\* placeholder.
C16_SentinelIsNoAnswer ==
    \A dns \in DnsOutcomes : \A d \in DomainNames :
        InjectedOf[d, "whois A", TRUE, dns].st = "ok" =>
            /\ InjectedOf[d, "whois A", TRUE, dns].v["ip"] # PyStr(LookupsDisabled)
            /\ InjectedOf[d, "whois A", TRUE, dns].v["mx"] # PyStr(LookupsDisabled)
            /\ InjectedOf[d, "whois A", FALSE, dns].v["ip"] = PyStr(LookupsDisabled)
            /\ InjectedOf[d, "whois A", FALSE, dns].v["mx"] = PyStr(LookupsDisabled)

\* C16 as stated: a check with DNS lookups that gets to _store_state, of a
\* domain whose current State has the placeholder in ip and mx, returns true
\* and stores one new state with a changed row for ip and one for mx, going
\* from the placeholder to what the resolver gave; and the other way round
\* for a check without lookups of a domain whose current State has resolved
\* values.
C16_SentinelTransition ==
    /\ C16_SentinelIsNoAnswer
    /\ (AtStore /\ Prev # NULL /\ PrevPlaceholders = chk.do_dns) =>
           /\ chk.status = "returned"
           /\ chk.ret = TRUE
           /\ Cardinality(NewStates) = 1
           /\ Placeholders = ~chk.do_dns
           /\ \A st \in NewStates :
                  {[state |-> c.state, info |-> c.info, val_from |-> c.val_from,
                    val_to |-> c.val_to] : c \in NewChangedDns}
                  = {[state |-> st.id, info |-> Label(k),
                      val_from |-> Prev[1][k],
                      val_to |-> chk.parsed_data[k]] : k \in {"ip", "mx"}}

\* C16, for the checks whose insert into state the store accepts.
C16_SentinelTransitionWhenAccepted ==
    (AtStore /\ Prev # NULL /\ chk.status # "raised") => C16_SentinelTransition

\* C16's case happens: lookups are switched on for a domain whose State has
\* the placeholder, the resolver has no record at all, and the state with
\* empty ip and mx is stored.
C16_Witness ==
    /\ AtStore /\ Prev # NULL /\ PrevPlaceholders /\ chk.do_dns
    /\ chk.status = "returned"
    /\ chk.parsed_data["ip"] = PyStr(<<>>)
    /\ chk.parsed_data["mx"] = PyStr(<<>>)
    /\ Cardinality(NewChangedDns) = 2

\* C17 as stated: when a check of a check_all_domains run ends in an
\* exception of the resolver, the store is as it was before that check, the
\* failure is reported (exit status 1), and the run has checked every
\* active domain all the same.
C17_DnsErrorPerDomain ==
    (cmd.name = "all" /\ pc = "exited" /\ DnsFailed) =>
        /\ committed = chk.pre
        /\ cmd.exit = 1
        /\ Range(CheckedDomains) = ActiveNow

\* C17, the part that holds: the check that the resolver's exception ends
\* leaves the store as it was (apart from the row of a domain that had
\* none) and ends the process with a failure status.
C17_DnsErrorNoMutation ==
    DnsFailed =>
        /\ committed.state = chk.pre.state
        /\ committed.changed = chk.pre.changed
        /\ ~BrandNew => committed = chk.pre
        /\ cmd.exit = 1
        /\ pc = "exited"

\* C18, the values: a date value that is neither a datetime nor a str in the
\* format YYYY-MM-DDTHH:MM:SS makes _clean_parsed_data fail, alone or in a
\* list, for each of the three date keys; a str ends in the reported
\* exit(1).
C18_MalformedDatesFail ==
    \A v \in MalformedDates : \A key \in DateKeys :
        /\ CleanParsedData([EntryA EXCEPT ![key] = v]).st \in {"exit", "raise"}
        /\ v.k = "str" => CleanParsedData([EntryA EXCEPT ![key] = v]).st = "exit"

\* C18: a malformed date value makes the clean-up fail, and a check whose
\* whois answer parses to such a date does not return: the process ends
\* there with status 1; the check has added no state and no changed row and
\* has not touched the domain's cur_raw_text and last_checked; in a
\* check_all_domains run it is the last check made, and every state the
\* run's earlier checks stored is in the store.
C18_BadDateAbortsRun ==
    /\ C18_MalformedDatesFail
    /\ (Ended /\ Answered
           /\ MalformedDateIn(WhoisEntryLoad(chk.domain, chk.check_data[1]))) =>
           /\ chk.status = "exited"
           /\ pc = "exited"
           /\ cmd.exit = 1
           /\ ~chk.at_store
           /\ committed.state = chk.pre.state
           /\ committed.changed = chk.pre.changed
           /\ IF BrandNew
              THEN Row.cur_raw_text = NULL /\ Row.last_checked = NULL
              ELSE committed = chk.pre
           /\ events[Len(events)] = Event("exited", chk.domain, 0)
           /\ cmd.name = "all" =>
                  /\ run.status = "aborted"
                  /\ CheckedDomains[Len(CheckedDomains)] = chk.domain
                  /\ \A i \in 1..Len(events) :
                         events[i].e = "stored" =>
                             \E st \in committed.state :
                                 /\ st.id = events[i].n
                                 /\ st.domain = events[i].d
                                 /\ Val(st.id) = LastStateOf(committed, st.domain)

\* C18's case happens: a run over two domains stores the state of the first
\* and ends in the check of the second, on a date in an unknown format.
C18_Witness ==
    /\ cmd.name = "all" /\ chk.status = "exited"
    /\ Answered
    /\ MalformedDateIn(WhoisEntryLoad(chk.domain, chk.check_data[1]))
    /\ Len(CheckedDomains) = 2
    /\ Len(EventsOf({"stored"})) = 1

\* C20: the clean-up of a list completes with a str.  For name_servers the
\* str, split at ", ", is the lower-cased entries of the list, each once, in
\* ascending order, so that two lists with the same lower-cased entries
\* (in any order, any number of times, any letter case) give the same str.
\* For status and for emails, a list and the same entries in another order
\* give the same str.
C20_ListOrderIndependence ==
    chk.done =>
        /\ chk.out_a.st = "ok" /\ chk.out_a.v.k = "str"
        /\ chk.out_b.st = "ok" /\ chk.out_b.v.k = "str"
        /\ chk.key = "name_servers" =>
               LET toks == IF chk.a.l = <<>> THEN <<>> ELSE Split(chk.out_a.v.s)
               IN  /\ Range(toks) = LoweredEntries(chk.a)
                   /\ \A i \in 1..(Len(toks) - 1) : StrLess(toks[i], toks[i + 1])
                   /\ chk.a.l = <<>> => chk.out_a.v.s = <<>>
                   /\ LoweredEntries(chk.a) = LoweredEntries(chk.b)
                          => chk.out_a = chk.out_b
        /\ chk.key \in {"status", "emails"} =>
               (SameEntries(chk.a, chk.b) => chk.out_a = chk.out_b)

\* C20's case happens: a list of three name servers, one of them twice in
\* two letter cases, gives the same str of two names as a list of those two
\* names in the other order.
C20_Witness ==
    /\ chk.done /\ chk.key = "name_servers"
    /\ Len(chk.a.l) = 3 /\ Len(chk.b.l) = 2
    /\ chk.a.l[1] # chk.b.l[1]
    /\ LoweredEntries(chk.a) = LoweredEntries(chk.b)
    /\ Len(Split(chk.out_a.v.s)) = 2
    /\ chk.out_a = chk.out_b

\* C19, at every moment: what another connection reads is whole, whatever
\* statement of _store_state or purge_domain this connection is at; and
\* when the process has ended before the commit, nothing of the transaction
\* is there: the tables are those the transaction started from.
C19_ReaderView ==
    /\ Whole(committed)
    /\ (pc = "exited" /\ chk.status = "raised") =>
           /\ committed = CheckDomainCall(chk.pre, app, chk.domain, chk.check_data).tables
           /\ tables = committed
    /\ (pc = "exited" /\ prg.status = "raised") =>
           /\ committed = prg.pre
           /\ tables = committed

\* C19, in every step: what another connection reads changes only at the
\* commit of _store_state, to all of what _store_state does; at the commit
\* of purge_domain, to all of what purge_domain does; and when check_domain
\* adds the row of a domain that has none (lines 467-475, a transaction of
\* its own).
C19_CommitsWhole ==
    committed' # committed =>
        \/ /\ pc = "ss_commit"
           /\ committed' =
                 StoreStateCall(committed,
                                IF chk.store_state THEN chk.new_state_id[1]
                                ELSE state_auto,
                                changed_auto - Len(chk.differences), now,
                                chk.domain, chk.check_data, chk.parsed_data,
                                chk.do_dns).tables
           /\ committed' # StoreUpdate(committed, chk.domain, chk.check_data, now,
                                       chk.do_dns)
                 => chk.store_state
        \/ /\ pc = "pg_commit"
           /\ PurgeDomainCall(committed, prg.domain).how = "returned"
           /\ committed' = PurgeDomainCall(committed, prg.domain).tables
        \/ /\ pc = "idle" /\ pc' = "ss_update"
           /\ ~HaveDomain(committed.domain, chk'.domain)
           /\ committed' = [committed EXCEPT !.domain =
                              @ \cup {NewDomainRow(chk'.domain,
                                                   DoDnsDb(app'.dns_behavior))}]

\* C19: _store_state and purge_domain each take effect as one transaction.
C19_Transactions == []C19_ReaderView /\ [][C19_CommitsWhole]_vars

\* C19's case happens: _store_state has inserted a state and the first of
\* its three changed rows and moved last_state; another connection still
\* reads the domain with its old state, raw text and last_checked.
C19_Witness ==
    /\ pc = "ss_changed"
    /\ Len(chk.differences) = 3
    /\ ChangedSoFar = 1
    /\ LastStateOf(tables, chk.domain) = chk.new_state_id
    /\ committed = chk.pre
    /\ LastStateOf(committed, chk.domain) # NULL
    /\ ~Whole(tables)

\* C21: for name_servers, status and emails, a scalar s and the lists [s]
\* and [s, s] (for name_servers also a list of s in several letter cases)
\* are cleaned to the same str.
C21_ShapeIndependence ==
    (/\ chk.done /\ chk.key \in ListKeys
     /\ chk.a.k = "str" /\ chk.b.k = "list" /\ chk.b.l # <<>>
     /\ \A i \in 1..Len(chk.b.l) :
            \/ chk.b.l[i] = chk.a
            \/ chk.key = "name_servers" /\ Lower(chk.b.l[i].s) = Lower(chk.a.s))
        => /\ chk.out_a.st = "ok"
           /\ chk.out_a = chk.out_b

\* C21, what holds of it: a scalar status and the lists [s] and [s, s] are
\* cleaned to the same str, and so are a scalar emails and the list [s].
C21_ShapeIndependenceOfStatus ==
    (/\ chk.done /\ chk.key \in {"status", "emails"}
     /\ chk.a.k = "str" /\ chk.b.k = "list" /\ chk.b.l # <<>>
     /\ \A i \in 1..Len(chk.b.l) : chk.b.l[i] = chk.a
     /\ chk.key = "emails" => Len(chk.b.l) = 1)
        => /\ chk.out_a.st = "ok"
           /\ chk.out_a = chk.out_b

\* C22: an emails list is cleaned to its distinct entries, sorted and
\* joined with ", ", each address once; a scalar is left as it is.
C22_EmailsDistinct ==
    (chk.done /\ chk.key = "emails" /\ chk.a.k # "none") =>
        /\ chk.out_a.st = "ok"
        /\ chk.a.k = "str" => chk.out_a.v = chk.a
        /\ chk.a.k = "list" =>
               /\ Range(Tokens(chk.out_a.v)) = {chk.a.l[i].s : i \in 1..Len(chk.a.l)}
               /\ \A i \in 1..(Len(Tokens(chk.out_a.v)) - 1) :
                      StrLess(Tokens(chk.out_a.v)[i], Tokens(chk.out_a.v)[i + 1])

\* C22, what holds of it: the list's entries, sorted and joined, with every
\* entry as many times as the list holds it; a scalar is left as it is.
C22_EmailsSorted ==
    (chk.done /\ chk.key = "emails" /\ chk.a.k # "none") =>
        /\ chk.out_a.st = "ok"
        /\ chk.a.k = "str" => chk.out_a.v = chk.a
        /\ chk.a.k = "list" =>
               /\ Len(Tokens(chk.out_a.v)) = Len(chk.a.l)
               /\ SameEntries(PyList(Tokens(chk.out_a.v)),
                              PyList([i \in 1..Len(chk.a.l) |-> chk.a.l[i].s]))
               /\ \A i \in 1..(Len(chk.a.l) - 1) :
                      ~StrLess(Tokens(chk.out_a.v)[i + 1], Tokens(chk.out_a.v)[i])

\* C23: a non-empty list of good date values is cleaned to one naive
\* datetime without microseconds, which is the cleaned value of an entry
\* of the list: for updated_date one that none of the others is later
\* than, for creation_date and expiration_date one that none is earlier
\* than.  One good value that is not in a list is cleaned to its own civil
\* fields, without microseconds.
C23_DateReduction ==
    (/\ chk.done /\ chk.key \in DateKeys
     /\ EntriesOf(chk.a) # <<>>
     /\ \A i \in 1..Len(EntriesOf(chk.a)) : GoodDate(EntriesOf(chk.a)[i]))
        => /\ chk.out_a.st = "ok"
           /\ chk.out_a.v.k = "datetime"
           /\ chk.out_a.v.us = 0 /\ chk.out_a.v.tz = Naive
           /\ \E i \in 1..Len(EntriesOf(chk.a)) :
                  chk.out_a.v.f = CivilFields(EntriesOf(chk.a)[i])
           /\ \A i \in 1..Len(EntriesOf(chk.a)) :
                  IF chk.key = "updated_date"
                  THEN ~FieldsLess(chk.out_a.v.f, CivilFields(EntriesOf(chk.a)[i]))
                  ELSE ~FieldsLess(CivilFields(EntriesOf(chk.a)[i]), chk.out_a.v.f)

\* C23's case happens: updated_date is a list whose second date is the
\* later one, and is cleaned to it without its microseconds, while the
\* same list in the other order is cleaned to the same.
C23_Witness ==
    /\ chk.done /\ chk.key = "updated_date"
    /\ chk.a.k = "list" /\ Len(chk.a.l) = 2
    /\ chk.a.l[1].k = "str" /\ GoodDate(chk.a.l[1])
    /\ chk.a.l[2].k = "datetime" /\ chk.a.l[2].us # 0
    /\ chk.b = PyList(<<chk.a.l[2], chk.a.l[1]>>)
    /\ FieldsLess(CivilFields(chk.a.l[1]), CivilFields(chk.a.l[2]))
    /\ chk.out_a = Ok(PyDatetime(chk.a.l[2].f, 0, Naive))
    /\ chk.out_b = chk.out_a

\* C24: an aware date value at offset k is cleaned to the UTC civil time of
\* its instant; good values that are the same instant are cleaned to the
\* same datetime; a list is cleaned to the instant of its latest
\* (updated_date) or earliest entry; a naive value keeps its fields.
C24_UtcNormalisation ==
    (/\ chk.done /\ chk.key \in DateKeys
     /\ EntriesOf(chk.a) # <<>> /\ EntriesOf(chk.b) # <<>>
     /\ \A i \in 1..Len(EntriesOf(chk.a)) : GoodDate(EntriesOf(chk.a)[i])
     /\ \A i \in 1..Len(EntriesOf(chk.b)) : GoodDate(EntriesOf(chk.b)[i]))
        => /\ chk.out_a.st = "ok"
           /\ \E i \in 1..Len(EntriesOf(chk.a)) :
                  chk.out_a.v.f = InstantOf(EntriesOf(chk.a)[i])
           /\ \A i \in 1..Len(EntriesOf(chk.a)) :
                  IF chk.key = "updated_date"
                  THEN ~FieldsLess(chk.out_a.v.f, InstantOf(EntriesOf(chk.a)[i]))
                  ELSE ~FieldsLess(InstantOf(EntriesOf(chk.a)[i]), chk.out_a.v.f)
           /\ (chk.a.k # "list" /\ chk.b.k # "list"
                  /\ InstantOf(chk.a) = InstantOf(chk.b))
                 => chk.out_a = chk.out_b

\* C24, what holds of it: a naive datetime and a str keep their civil
\* fields.
C24_NaiveKept ==
    (/\ chk.done /\ chk.key \in DateKeys
     /\ chk.a.k # "list" /\ GoodDate(chk.a)
     /\ chk.a.k = "datetime" => chk.a.tz = Naive)
        => chk.out_a = Ok(PyDatetime(CivilFields(chk.a), 0, Naive))

\* C25: with good dates the clean-up completes whatever name_servers,
\* status and emails are (None, a str, a list); and a date value that is
\* not good, None included, ends it in the reported exit(1).
C25_Total ==
    chk.done =>
        /\ chk.key \in ListKeys => chk.out_a.st = "ok"
        /\ (/\ chk.key \in DateKeys
            /\ \E i \in 1..Len(EntriesOf(chk.a)) : ~GoodDate(EntriesOf(chk.a)[i]))
               => chk.out_a.st = "exit"

\* C25, what holds of it: the clean-up completes for every str and every
\* list of name_servers, status and emails and for emails None, and a date
\* str in another format than date_t_re's ends it in the reported exit(1),
\* unless an earlier date of its list has ended it otherwise.
C25_TotalOnText ==
    chk.done =>
        /\ (chk.key \in ListKeys /\ (chk.a.k # "none" \/ chk.key = "emails"))
               => chk.out_a.st = "ok"
        /\ (/\ chk.key \in DateKeys
            /\ \E i \in 1..Len(EntriesOf(chk.a)) :
                   /\ EntriesOf(chk.a)[i].k = "str"
                   /\ ~WellFormedDate(EntriesOf(chk.a)[i])
                   /\ \A j \in 1..(i - 1) : GoodDate(EntriesOf(chk.a)[j]))
               => chk.out_a.st = "exit"

\* C29: status, one token or a list of tokens, is cleaned to a str that,
\* split at ", ", is the tokens without their trailing " URL" or " (URL)",
\* each once, in ascending order: tokens that are equal or differ in the
\* URL only give one entry, and a token without URL is kept as it is.
C29_StatusUrlStripped ==
    (chk.done /\ chk.key = "status" /\ chk.a.k # "none") =>
        /\ chk.out_a.st = "ok" /\ chk.out_a.v.k = "str"
        /\ Range(Tokens(chk.out_a.v)) =
              {WithoutUrl(EntriesOf(chk.a)[i].s) : i \in 1..Len(EntriesOf(chk.a))}
        /\ \A i \in 1..(Len(Tokens(chk.out_a.v)) - 1) :
               StrLess(Tokens(chk.out_a.v)[i], Tokens(chk.out_a.v)[i + 1])
        /\ \A i \in 1..Len(EntriesOf(chk.a)) :
               (\A j \in 1..Len(EntriesOf(chk.a)[i].s) :
                    EntriesOf(chk.a)[i].s[j] # " ")
                 => \E n \in 1..Len(Tokens(chk.out_a.v)) :
                        Tokens(chk.out_a.v)[n] = EntriesOf(chk.a)[i].s

\* C29's case happens: a list of one status with its URL in the two forms
\* is cleaned to the status alone, once, and so is the status with one of
\* them next to the bare status.
C29_Witness ==
    /\ chk.done /\ chk.key = "status"
    /\ chk.a.k = "list" /\ Len(chk.a.l) = 2
    /\ chk.a.l[1] # chk.a.l[2]
    /\ chk.a.l[1].s[Len(chk.a.l[1].s)] = ")"
    /\ chk.a.l[2].s[Len(chk.a.l[2].s)] = "c"
    /\ Len(chk.a.l[2].s) > 2
    /\ chk.b.k = "list" /\ Len(chk.b.l) = 2
    /\ chk.b.l[1] = chk.a.l[1] /\ chk.b.l[2].s = <<"o", "k">>
    /\ chk.out_a = Ok(PyStr(<<"o", "k">>))
    /\ chk.out_b = chk.out_a

\* C26: in every step, a state row and a changed row that another
\* connection reads are there afterwards, with the same id and values,
\* unless the step is purge_domain of the domain the state belongs to.
C26_AppendOnlyStep ==
    LET Purged(d) == pc = "idle" /\ cmd'.name = "purge" /\ cmd'.domain = d
    IN  /\ \A r \in committed.state : r \in committed'.state \/ Purged(r.domain)
        /\ \A c \in committed.changed :
               \/ c \in committed'.changed
               \/ \E r \in committed.state : r.id = c.state /\ Purged(r.domain)

C26_AppendOnly == [][C26_AppendOnlyStep]_vars

\* C26's case happens: a check has stored the second state of a domain with
\* its changed rows, and the domain's first state is in the store as it was.
C26_Witness ==
    /\ AtStore /\ chk.status = "returned"
    /\ Prev # NULL /\ Prev[1] \in committed.state
    /\ Cardinality(NewStates) = 1
    /\ Cardinality(NewChanged) >= 2
    /\ chk.pre.state \subseteq committed.state

\* C27, at every moment of purge_domain: no row the connection sees names a
\* row that is not there.
C27_References == pc \in PurgePcs => References(tables)

\* C27, in every step of purge_domain: the statements come in the order
\* changed rows, last_state, states, domain row, commit, and each does its
\* part and no other: the changed rows of the domain's states are gone; then
\* the domain's last_state is NULL; then the domain's states are gone; then
\* its row is gone.
C27_PurgeStep ==
    LET d == prg.domain
        After(at) == CASE at = "pg_changed" -> "pg_detach"
                      [] at = "pg_detach" -> "pg_states"
                      [] at = "pg_states" -> "pg_domain"
                      [] at = "pg_domain" -> "pg_commit"
                      [] at = "pg_commit" -> "exited"
    IN  pc \in PurgePcs =>
            /\ pc' \in {After(pc), "exited"}
            /\ pc' = "pg_detach" =>
                   /\ RowsOf(tables', d).changed = {}
                   /\ \A c \in changed \ changed' :
                          \E r \in state : r.domain = d /\ r.id = c.state
                   /\ domain' = domain /\ state' = state
            /\ pc' = "pg_states" =>
                   /\ LastStateOf(tables', d) = NULL
                   /\ domain' = UpdateDomain(domain, d, "last_state", NULL)
                   /\ state' = state /\ changed' = changed
            /\ pc' = "pg_domain" =>
                   /\ state' = {r \in state : r.domain # d}
                   /\ domain' = domain /\ changed' = changed
            /\ pc' = "pg_commit" =>
                   /\ domain' = {r \in domain : r.domain # d}
                   /\ state' = state /\ changed' = changed

\* C27: purge_domain deletes in the order changed rows, last_state, states,
\* domain row, and after each of the statements no reference dangles.
C27_PurgeOrder == []C27_References /\ [][C27_PurgeStep]_vars

\* C27's case happens: purge_domain of a domain with two states and their
\* changed rows has deleted the changed rows and detached last_state; the
\* states are still there, and other connections still read all of it.
C27_Witness ==
    /\ pc = "pg_states"
    /\ Cardinality(RowsOf(tables, prg.domain).state) = 2
    /\ RowsOf(tables, prg.domain).changed = {}
    /\ LastStateOf(tables, prg.domain) = NULL
    /\ RowsOf(committed, prg.domain).changed # {}
    /\ LastStateOf(committed, prg.domain) # NULL

\* C28, first half: no two state rows have the same domain and check_time.
C28_UniqueDomtime ==
    \A s1 \in committed.state : \A s2 \in committed.state :
        (s1.domain = s2.domain /\ s1.check_time = s2.check_time) => s1 = s2

\* C28: no two state rows have the same domain and check_time, and every
\* check that finds a change (or no state to compare with) stores its
\* state, whatever the store's clock reads.
C28_UniqueAndStored ==
    /\ C28_UniqueDomtime
    /\ (AtStore /\ (Prev = NULL \/ Differing # {})) =>
           /\ chk.status = "returned"
           /\ \E r \in NewStates : r.domain = chk.domain /\ r.check_time = now

\* C30, at every moment.  After set_domain_status of a known domain, the
\* store is what it was but for the domain's active_checks.  A
\* check_all_domains run goes through the domains whose flag is set: every
\* check, whois lookup and DNS query of the run is for one of them; a run
\* that returns has checked them all, and a run that a check has ended has
\* left out only domains after the one it ended in.
C30_ActiveFlag ==
    /\ (cmd.name = "status" /\ prg.status = "returned") =>
           /\ committed.state = prg.pre.state
           /\ committed.changed = prg.pre.changed
           /\ {r \in committed.domain : r.domain # prg.domain}
                = {r \in prg.pre.domain : r.domain # prg.domain}
           /\ HaveDomain(committed.domain, prg.domain)
           /\ [DomainRow(committed.domain, prg.domain) EXCEPT !.active_checks =
                 DomainRow(prg.pre.domain, prg.domain).active_checks]
                = DomainRow(prg.pre.domain, prg.domain)
           /\ DomainRow(committed.domain, prg.domain).active_checks \in {0, 1}
    /\ cmd.name = "all" =>
           /\ run.active = ActiveNow
           /\ \A i \in 1..Len(events) :
                  events[i].e \in {"check_domain", "whois_lookup", "dns_query"}
                      => events[i].d \in ActiveNow
           /\ run.status = "returned" => ActiveNow \subseteq Range(CheckedDomains)
           /\ \A a \in ActiveNow \ Range(CheckedDomains) :
                  \A i \in 1..Len(CheckedDomains) : StrLess(CheckedDomains[i], a)

\* C30, in every step of a check_all_domains run: the rows of a domain
\* whose flag is not set (its domain row, its states, their changed rows)
\* stay as they are.
C30_InactiveStep ==
    (cmd.name = "all" \/ cmd'.name = "all") =>
        \A d \in DomainNames :
            (HaveDomain(committed.domain, d) /\ d \notin ActiveNow)
                => RowsOf(committed', d) = RowsOf(committed, d)

C31_OthersUntouchedStep ==
    (committed' # committed /\ cmd'.name # "status") =>
        LET d == IF cmd'.name = "purge" THEN cmd'.domain ELSE chk'.domain
        IN  /\ \A e \in DomainNames \ {d} : RowsOf(committed', e) = RowsOf(committed, e)
            /\ \A r \in committed'.state \ committed.state : r.domain = d
            /\ \A c \in committed'.changed \ committed.changed :
                   \E r \in committed'.state \ committed.state : r.id = c.state
            /\ \A r \in committed'.domain \ committed.domain : r.domain = d

C31_OthersUntouched == [][C31_OthersUntouchedStep]_vars

\* C31's case happens: a check has stored a state of one domain while the
\* other domain has a state, which is in the store as it was.
C31_Witness ==
    /\ AtStore /\ chk.status = "returned"
    /\ Cardinality(NewStates) = 1
    /\ \E e \in DomainNames \ {chk.domain} :
           /\ RowsOf(chk.pre, e).state # {}
           /\ RowsOf(committed, e) = RowsOf(chk.pre, e)

\* C32: the row of a domain is in the store, committed, whenever a whois
\* lookup is made for it.  A live check of a domain without a row that gives
\* up on the communication error leaves the row as the insert made it
\* (last_state NULL, active_checks 1, never checked) and no state; a domain
\* with such a row is among the domains of a check_all_domains run; and a
\* check that stores for a domain with a row and no current state adds one
\* state and no changed row, and returns true.
C32_RowBeforeFetch ==
    /\ pc = "cd_whois" => HaveDomain(committed.domain, chk.domain)
    /\ \A i \in 1..Len(events) :
           events[i].e = "whois_lookup" => HaveDomain(committed.domain, events[i].d)
    /\ (Ended /\ chk.live /\ BrandNew /\ chk.status = "returned" /\ ~chk.at_store) =>
           /\ AllTransient
           /\ HaveDomain(committed.domain, chk.domain)
           /\ Row = NewDomainRow(chk.domain, DoDnsDb(app.dns_behavior))
           /\ RowsOf(committed, chk.domain).state = {}
           /\ committed.state = chk.pre.state
    /\ cmd.name = "all" =>
           \A r \in committed.domain :
               (r.last_state = NULL /\ r.active_checks = 1) => r.domain \in run.active
    /\ (AtStore /\ chk.status = "returned" /\ ~BrandNew /\ Prev = NULL) =>
           /\ chk.ret = TRUE
           /\ Cardinality(NewStates) = 1
           /\ NewChanged = {}
           /\ Row.last_state # NULL

\* C32's case happens: the first check of a domain gives up after two
\* lookups that got the communication error; its row is there, without a
\* state.
C32_Witness ==
    /\ Ended /\ chk.live /\ BrandNew
    /\ chk.status = "returned" /\ ~chk.at_store
    /\ Len(chk.lookups) = 2
    /\ Row.last_state = NULL /\ Row.active_checks = 1

\* C33: for every max_retries, 0 included, a live check that has ended has
\* got a whois answer (it made a lookup and check_data is that answer)
\* before the test for the communication error, and max_retries = 0 does not
\* keep it from returning.
C33_LiveCheckHasResponse ==
    (Ended /\ chk.live) =>
        /\ chk.check_data # NULL
        /\ Len(chk.lookups) >= 1
        /\ app.max_retries = 0 => chk.status = "returned"

\* C33, what holds of it: with max_retries >= 1 a live check that has ended
\* made a lookup and went on with its answer; with max_retries = 0 it made
\* none and raised, before anything but the row of a new domain was
\* written.
C33_LiveCheckWithRetries ==
    (Ended /\ chk.live) =>
        IF app.max_retries >= 1
        THEN /\ chk.check_data # NULL
             /\ Len(chk.lookups) >= 1
             /\ chk.check_data[1] = chk.lookups[Len(chk.lookups)]
        ELSE /\ chk.check_data = NULL
             /\ chk.lookups = <<>>
             /\ chk.status = "raised"
             /\ committed = CheckDomainCall(chk.pre, app, chk.domain, NULL).tables

\* C34, at every moment of a check_all_domains run: a check has made at
\* most max_retries whois lookups, also when each got the communication
\* error; a check that gave up on the communication error has returned, and
\* the run has not ended with it: the loop goes on to the domains that
\* follow; and a run that has returned has checked every domain whose flag
\* is set.
C34_Bounded ==
    cmd.name = "all" =>
        /\ chk.attempts <= app.max_retries
        /\ Len(chk.lookups) <= app.max_retries
        /\ Len(EventsOf({"whois_lookup"})) <= app.max_retries * Cardinality(run.active)
        /\ (Ended /\ chk.check_data # NULL /\ AllTransient) =>
               /\ chk.status = "returned"
               /\ run.status # "aborted"
               /\ pc = "exited" => run.status = "returned"
        /\ run.status = "returned" => run.active \subseteq Range(CheckedDomains)

\* C34: a check_all_domains run that has started comes to its end: the
\* process exits, the run having returned or a check having ended it.
C34_RunEnds ==
    (cmd.name = "all") ~> (pc = "exited" /\ run.status \in {"returned", "aborted"})

\* C34: every check_all_domains run finishes, every retry loop is bounded
\* by max_retries, and giving up on one domain does not end the run.
C34_Termination == []C34_Bounded /\ C34_RunEnds

\* C34's case happens: a run with max_retries 2 over two domains has
\* returned; the check of the first gave up after two lookups that got the
\* communication error, and the second was checked after it.
C34_Witness ==
    /\ cmd.name = "all" /\ run.status = "returned"
    /\ app.max_retries = 2
    /\ Len(CheckedDomains) = 2
    /\ \E i \in 1..Len(events) :
           /\ events[i] = Event("communication_error", CheckedDomains[1], 0)
           /\ events[i - 1] = Event("whois_lookup", CheckedDomains[1], 2)
    /\ \E i \in 1..Len(events) :
           events[i].e = "whois_lookup" /\ events[i].d = CheckedDomains[2]
====
